---- MODULE Spec2Model ----
(***************************************************************************)
(* Mesh geometry repair and manifoldness analysis (src/src/lib/            *)
(* geometry_fix.ts), modelled as a state machine: a scene of triangle      *)
(* meshes, one GeometryRepairer, and a client that calls its public        *)
(* methods.                                                                *)
(*                                                                         *)
(* Numbers.  A coordinate is an integer number of micrometres, standing    *)
(* for the real number n * 1e-6 (the analyzer's fixed tolerance, 0.000001, *)
(* is one unit).  Arithmetic on coordinates is exact; the rounding of      *)
(* Float32Array storage is not modelled.  The analyzer's 32-bit hash is    *)
(* computed with its 32-bit wrap-around, on 16-bit limbs.                  *)
(*                                                                         *)
(* Vertex indices are 0-based as in the code; TLA+ sequences are 1-based,  *)
(* so vertex v is positions[v + 1].                                        *)
(***************************************************************************)
EXTENDS Integers, Sequences, FiniteSets, TLC

VARIABLES
  scene,            \* the meshes of object3D in traversal order: their geometries
  meshes,           \* GeometryRepairer.meshes
  analysisResults,  \* GeometryRepairer.analysisResults
  pc,               \* repairGeometry: "idle", "await" (suspended at the await), "done"
  opts,             \* repairGeometry: the options of the call
  opIndex,          \* repairGeometry: the loop variable i at the await
  pending,          \* repairGeometry: the value operation.fn() returned, awaited
  results,          \* repairGeometry: the results record (name -> count)
  progress,         \* the onProgress calls made, in order
  log,              \* console lines written since repairGeometry was called
  finalAnalysis,    \* repairGeometry: the finalAnalysis it returned
  lastOp,           \* the public method called last
  ret,              \* the number the last public method returned
  lastTolerance,    \* the tolerance of the last call, if it was mergeVertices; else 0
  input,            \* the scene as it was before the first call (never changes)
  graph,            \* the Object3D hierarchy the meshes of the scene hang in
  removeOptions,    \* the thresholds of the last removeMeshesWithIssues call
  edgeKeys,         \* vertex pairs, the edge keys got for them, the pairs decoded
  svgExport,        \* exportSceneToSvg: where the call is, what it has called
  obj,              \* ObjGeometryRepairer: an OBJ text, its MeshData, the text written
  sar,              \* SARSimulation: config.aperturePath, sensor, processor, the call
  sessions          \* two repairGeometry calls on one repairer, two objects

vars == <<scene, meshes, analysisResults, pc, opts, opIndex, pending, results,
          progress, log, finalAnalysis, lastOp, ret, lastTolerance, input,
          graph, removeOptions, edgeKeys, svgExport, obj, sar, sessions>>

\* what the repair passes and repairGeometry neither read nor write
otherVars == << graph, removeOptions, edgeKeys, svgExport, obj, sar,
               sessions >>

\* what no method of a repairer with a scene reads or writes
unitVars == << edgeKeys, svgExport, obj, sar, sessions >>

(***************************************************************************)
(* Bounds of the generated inputs.                                         *)
(***************************************************************************)
MaxVerts == 3
MaxFaces == 2

(***************************************************************************)
(* Sequence helpers.                                                       *)
(***************************************************************************)
Range(s) == { s[k] : k \in 1..Len(s) }

RECURSIVE SumSeq(_)
SumSeq(s) == IF s = <<>> THEN 0 ELSE Head(s) + SumSeq(Tail(s))

Min(a, b) == IF a < b THEN a ELSE b
Max(a, b) == IF a > b THEN a ELSE b
Abs(a) == IF a < 0 THEN 0 - a ELSE a

(***************************************************************************)
(* A geometry (THREE.BufferGeometry as the repairer reads it).             *)
(*   positions : one <<x, y, z>> per vertex                                *)
(*   hasNormal, normals : the normal attribute, one value per vertex       *)
(*   hasUv, uvs         : the uv attribute, one value per vertex           *)
(*   hasIndex, index    : the index buffer, three entries per face         *)
(* A normal or uv value is a tag: k > 0 is the value vertex k - 1 of the   *)
(* input carried, 0 is a normal computeVertexNormals computed.             *)
(***************************************************************************)
Geometry(positions, hasNormal, normals, hasUv, uvs, hasIndex, index) ==
  [positions |-> positions, hasNormal |-> hasNormal, normals |-> normals,
   hasUv |-> hasUv, uvs |-> uvs, hasIndex |-> hasIndex, index |-> index]

(***************************************************************************)
(* 32-bit integer arithmetic of the hash (JavaScript's ^ works on ToInt32  *)
(* of its operands).  A word is <<high 16 bits, low 16 bits>>.             *)
(***************************************************************************)
Half == 65536

ToInt32(x) ==
  LET lo == x % Half
  IN  << ((x - lo) \div Half) % Half, lo >>

\* (a * b) mod 2^16, for 0 <= a, b < 2^16, without leaving 31 bits
MulMod16(a, b) ==
  (((a % 256) * b) + ((((a \div 256) * b) % 256) * 256)) % Half

\* (a * b) div 2^16, for 0 <= a, b < 2^16
MulDiv16(a, b) ==
  LET t0 == (a % 256) * b
      t1 == (a \div 256) * b
  IN  (t1 \div 256) + ((((t1 % 256) * 256) + t0) \div Half)

\* ToInt32(x * p) for an integer x and 0 <= p < 2^31 (the product is exact
\* in the code's doubles while |x * p| < 2^53)
MulInt32(x, p) ==
  LET xw == ToInt32(x)
      pw == ToInt32(p)
  IN  << (MulDiv16(xw[2], pw[2]) + MulMod16(xw[1], pw[2])
            + MulMod16(xw[2], pw[1])) % Half,
         MulMod16(xw[2], pw[2]) >>

RECURSIVE Xor16(_, _)
Xor16(a, b) ==
  IF a = 0 THEN b
  ELSE IF b = 0 THEN a
  ELSE ((a + b) % 2) + 2 * Xor16(a \div 2, b \div 2)

XorInt32(v, w) == << Xor16(v[1], w[1]), Xor16(v[2], w[2]) >>

(***************************************************************************)
(* countDuplicateVerticesFast: tolerance 0.000001 is one coordinate unit,  *)
(* so Math.round(positions[i] * scale) is the coordinate itself.           *)
(***************************************************************************)
HashPrimeX == 73856093
HashPrimeY == 19349663
HashPrimeZ == 83492791

VertexHash(p) ==
  XorInt32(XorInt32(MulInt32(p[1], HashPrimeX), MulInt32(p[2], HashPrimeY)),
           MulInt32(p[3], HashPrimeZ))

\* one turn of the loop of lines 261-275, for vertex v
CountDuplicateStep(positions, v, acc) ==
  LET hash == VertexHash(positions[v + 1])
  IN  IF hash \in acc.vertexSet
      THEN [acc EXCEPT !.duplicates = @ + 1]
      ELSE [acc EXCEPT !.vertexSet = @ \cup {hash}]

\* the turns for vertices lo .. hi - 1 in order (the range is halved, and
\* the never-true test on acc makes the accumulator be computed before the
\* next turn, only to keep the evaluation shallow; so in the loops below)
RECURSIVE CountDuplicateRange(_, _, _, _)
CountDuplicateRange(positions, lo, hi, acc) ==
  IF hi <= lo \/ DOMAIN acc = {} THEN acc
  ELSE IF hi = lo + 1 THEN CountDuplicateStep(positions, lo, acc)
  ELSE LET mid == (lo + hi) \div 2
       IN  CountDuplicateRange(positions, mid, hi,
             CountDuplicateRange(positions, lo, mid, acc))

countDuplicateVerticesFast(positions) ==
  CountDuplicateRange(positions, 0, Len(positions),
                      [vertexSet |-> {}, duplicates |-> 0]).duplicates

(***************************************************************************)
(* The cross product of the edges ab and ac, and the comparison of its     *)
(* length with the tolerance.  The code compares a length in square metres *)
(* with 0.000001; in square micrometres that is 10^6, and the squared      *)
(* length is compared with 10^12, here in base 10^6 to stay in 31 bits.    *)
(***************************************************************************)
Cross(pa, pb, pc_) ==
  LET abx == pb[1] - pa[1]
      aby == pb[2] - pa[2]
      abz == pb[3] - pa[3]
      acx == pc_[1] - pa[1]
      acy == pc_[2] - pa[2]
      acz == pc_[3] - pa[3]
  IN  << aby * acz - abz * acy, abz * acx - abx * acz, abx * acy - aby * acx >>

AreaTolerance == 1000000

LengthSqBelowTolerance(cross) ==
  LET x == Abs(cross[1])
      y == Abs(cross[2])
      z == Abs(cross[3])
  IN  /\ x < AreaTolerance /\ y < AreaTolerance /\ z < AreaTolerance
      /\ LET hi(c) == c \div 1000
             lo(c) == c % 1000
             A == hi(x) * hi(x) + hi(y) * hi(y) + hi(z) * hi(z)
             B == 2 * (hi(x) * lo(x) + hi(y) * lo(y) + hi(z) * lo(z))
             D == lo(x) * lo(x) + lo(y) * lo(y) + lo(z) * lo(z)
         IN  A + (B \div 1000) + ((((B % 1000) * 1000) + D) \div AreaTolerance)
               < AreaTolerance

isZeroAreaFace(positions, a, b, c) ==
  LengthSqBelowTolerance(Cross(positions[a + 1], positions[b + 1],
                               positions[c + 1]))

(***************************************************************************)
(* Edge keys: the Cantor pairing of (min, max), and its inverse.           *)
(***************************************************************************)
getEdgeKey(a, b) ==
  LET min == Min(a, b)
      max == Max(a, b)
  IN  ((min + max) * (min + max + 1)) \div 2 + max

\* Math.floor((Math.sqrt(8 * key + 1) - 1) / 2): the largest w with
\* w * (w + 1) / 2 <= key
TriangularRoot(key) ==
  CHOOSE w \in 0..key :
    (w * (w + 1)) \div 2 <= key /\ ((w + 1) * (w + 2)) \div 2 > key

decodeEdgeKey(key) ==
  LET w == TriangularRoot(key)
      t == (w * w + w) \div 2
      max == key - t
      min == w - max
  IN  << min, max >>

(***************************************************************************)
(* The edge keys as the numbers they are, IEEE 754 doubles.  getEdgeKey    *)
(* and decodeEdgeKey above are exact as long as every intermediate value   *)
(* is below 2^53, which holds for the vertex indices of the scenes         *)
(* analysed here; for larger vertex indices the products and sums are      *)
(* rounded to 53 significant bits, to nearest, ties to even.  A            *)
(* non-negative whole number is a sequence of digits in base Limb, lowest  *)
(* digit first, no leading zero digit; a signed one is [neg, mag].         *)
(***************************************************************************)
Limb == 32768
LimbBits == 15
MantissaBits == 53

RECURSIVE FromInt(_)
FromInt(n) == IF n = 0 THEN << >> ELSE << n % Limb >> \o FromInt(n \div Limb)

RECURSIVE NumNorm(_)
NumNorm(x) ==
  IF x = << >> THEN << >>
  ELSE IF x[Len(x)] = 0 THEN NumNorm(SubSeq(x, 1, Len(x) - 1))
  ELSE x

Digit(x, i) == IF i <= Len(x) THEN x[i] ELSE 0

RECURSIVE AddFrom(_, _, _, _)
AddFrom(x, y, i, carry) ==
  IF i > Len(x) /\ i > Len(y)
  THEN IF carry = 0 THEN << >> ELSE << carry >>
  ELSE << (Digit(x, i) + Digit(y, i) + carry) % Limb >>
         \o AddFrom(x, y, i + 1, (Digit(x, i) + Digit(y, i) + carry) \div Limb)

NumAdd(x, y) == AddFrom(x, y, 1, 0)

\* x - y for x >= y
RECURSIVE SubFrom(_, _, _, _)
SubFrom(x, y, i, borrow) ==
  IF i > Len(x) THEN << >>
  ELSE IF Digit(x, i) - Digit(y, i) - borrow < 0
  THEN << Digit(x, i) - Digit(y, i) - borrow + Limb >> \o SubFrom(x, y, i + 1, 1)
  ELSE << Digit(x, i) - Digit(y, i) - borrow >> \o SubFrom(x, y, i + 1, 0)

NumSub(x, y) == NumNorm(SubFrom(x, y, 1, 0))

\* x < y
NumLess(x, y) ==
  \/ Len(x) < Len(y)
  \/ /\ Len(x) = Len(y)
     /\ \E i \in 1..Len(x) :
          /\ x[i] < y[i]
          /\ \A j \in (i + 1)..Len(x) : x[j] = y[j]

RECURSIVE MulDigitFrom(_, _, _, _)
MulDigitFrom(x, d, i, carry) ==
  IF i > Len(x) THEN IF carry = 0 THEN << >> ELSE << carry >>
  ELSE << (x[i] * d + carry) % Limb >>
         \o MulDigitFrom(x, d, i + 1, (x[i] * d + carry) \div Limb)

RECURSIVE MulFrom(_, _, _)
MulFrom(x, y, j) ==
  IF j > Len(y) THEN << >>
  ELSE NumAdd(MulDigitFrom(x, y[j], 1, 0), << 0 >> \o MulFrom(x, y, j + 1))

NumMul(x, y) == NumNorm(MulFrom(x, y, 1))

\* floor(x / 2)
NumHalf(x) ==
  NumNorm([i \in 1..Len(x) |->
             (x[i] + (Digit(x, i + 1) % 2) * Limb) \div 2])

NumOdd(x) == x # << >> /\ x[1] % 2 = 1

BitLength(x) ==
  IF x = << >> THEN 0
  ELSE LimbBits * (Len(x) - 1)
         + (CHOOSE k \in 1..LimbBits :
              2 ^ (k - 1) <= x[Len(x)] /\ x[Len(x)] < 2 ^ k)

RECURSIVE TimesPowerOfTwo(_, _)
TimesPowerOfTwo(x, e) ==
  IF e = 0 THEN x ELSE TimesPowerOfTwo(NumAdd(x, x), e - 1)

\* x without its e lowest bits, rounded to nearest, ties to even: guard is
\* the last bit dropped, sticky tells whether a bit dropped before it was 1
RECURSIVE RoundedQuotient(_, _, _, _)
RoundedQuotient(x, e, guard, sticky) ==
  IF e = 0
  THEN IF guard /\ (sticky \/ NumOdd(x)) THEN NumAdd(x, << 1 >>) ELSE x
  ELSE RoundedQuotient(NumHalf(x), e - 1, NumOdd(x), sticky \/ guard)

\* the double nearest to the whole number x
RoundToDouble(x) ==
  IF BitLength(x) <= MantissaBits THEN x
  ELSE TimesPowerOfTwo(
         RoundedQuotient(x, BitLength(x) - MantissaBits, FALSE, FALSE),
         BitLength(x) - MantissaBits)

\* getEdgeKey, lines 316-321, on doubles
KeyOfSum(sum, max) ==
  RoundToDouble(NumAdd(
    NumHalf(RoundToDouble(NumMul(sum, RoundToDouble(NumAdd(sum, << 1 >>))))),
    max))

getEdgeKeyDouble(a, b) ==
  KeyOfSum(RoundToDouble(NumAdd(FromInt(Min(a, b)), FromInt(Max(a, b)))),
           FromInt(Max(a, b)))

\* Math.sqrt(x) >= n, for a whole number x and an odd n >= 1 below 2^31:
\* Math.sqrt returns the double nearest to the square root, which is n or
\* more exactly when the square root is above the midpoint of n and the
\* double before n, n - 2^(p - 53) for 2^p <= n < 2^(p + 1); for a whole
\* number x that is x >= n * n - floor(n / 2^(52 - p))
SqrtAtLeast(x, n) ==
  LET p == BitLength(FromInt(n)) - 1
      slack == IF p < 22 THEN 0 ELSE n \div (2 ^ (52 - p))
  IN  ~NumLess(NumAdd(x, FromInt(slack)), NumMul(FromInt(n), FromInt(n)))

\* Math.floor((Math.sqrt(x) - 1) / 2): the largest w with
\* Math.sqrt(x) >= 2 * w + 1, between lo (for which it holds) and hi (for
\* which it does not)
RECURSIVE FloorHalfSqrt(_, _, _)
FloorHalfSqrt(x, lo, hi) ==
  IF hi = lo + 1 THEN lo
  ELSE IF SqrtAtLeast(x, 2 * ((lo + hi) \div 2) + 1)
  THEN FloorHalfSqrt(x, (lo + hi) \div 2, hi)
  ELSE FloorHalfSqrt(x, lo, (lo + hi) \div 2)

Positive(x) == [neg |-> FALSE, mag |-> x]

\* the double x - y of two doubles that are whole numbers, x >= 0
Minus(x, y) ==
  IF y.neg THEN Positive(RoundToDouble(NumAdd(x, y.mag)))
  ELSE IF NumLess(x, y.mag)
  THEN [neg |-> TRUE, mag |-> RoundToDouble(NumSub(y.mag, x))]
  ELSE Positive(RoundToDouble(NumSub(x, y.mag)))

\* lines 326-329, w given
DecodedWith(key, w) ==
  LET t == NumHalf(RoundToDouble(NumAdd(RoundToDouble(NumMul(w, w)), w)))
      max == Minus(key, Positive(t))
      min == Minus(w, max)
  IN  << min, max >>

\* decodeEdgeKey, lines 323-330, on doubles
decodeEdgeKeyDouble(key) ==
  DecodedWith(key,
    FromInt(FloorHalfSqrt(
      RoundToDouble(NumAdd(TimesPowerOfTwo(key, 3), << 1 >>)), 0,
      2 ^ ((BitLength(key) + 5) \div 2))))

(***************************************************************************)
(* analyzeSingleMesh.  The field faces3 is three times the code's faces    *)
(* (indices.length / 3, or positions.length / 9 without an index buffer,   *)
(* which is not always a whole number).                                    *)
(***************************************************************************)
MapGet(map, key) == IF key \in DOMAIN map THEN map[key] ELSE 0

\* for (let j = 0; j < 3; j++) over edges[j], lines 214-223
RECURSIVE AnalyzeEdges(_, _, _)
AnalyzeEdges(acc, edges, j) ==
  IF j > 3 THEN acc
  ELSE LET edgeKey == edges[j]
           count == MapGet(acc.edgeCount, edgeKey)
           v == decodeEdgeKey(edgeKey)
           set1 == [acc.vertexEdgeSet EXCEPT ![v[1] + 1] = @ \cup {v[2]}]
           set2 == [set1 EXCEPT ![v[2] + 1] = @ \cup {v[1]}]
       IN  AnalyzeEdges(
             [acc EXCEPT !.edgeCount =
                           [k \in DOMAIN acc.edgeCount \cup {edgeKey} |->
                              IF k = edgeKey THEN count + 1
                              ELSE acc.edgeCount[k]],
                         !.vertexEdgeSet = set2],
             edges, j + 1)

\* AnalyzeFace without the continue of line 198: a zero-area face is counted
\* and its corners and edges are registered all the same
AnalyzeFaceWithoutContinue(acc, positions, a, b, c) ==
  IF a = b \/ b = c \/ c = a
  THEN [acc EXCEPT !.degenerateFaces = @ + 1]
  ELSE AnalyzeEdges(
         [acc EXCEPT
            !.degenerateFaces =
               @ + (IF isZeroAreaFace(positions, a, b, c) THEN 1 ELSE 0),
            !.vertexFaceCount =
               [k \in DOMAIN acc.vertexFaceCount |->
                  acc.vertexFaceCount[k]
                    + (IF k = a + 1 THEN 1 ELSE 0)
                    + (IF k = b + 1 THEN 1 ELSE 0)
                    + (IF k = c + 1 THEN 1 ELSE 0)]],
         << getEdgeKey(a, b), getEdgeKey(b, c), getEdgeKey(c, a) >>, 1)

\* one turn of the loop over faces, lines 185-224
AnalyzeFace(acc, positions, a, b, c) ==
  IF a = b \/ b = c \/ c = a
  THEN [acc EXCEPT !.degenerateFaces = @ + 1]
  ELSE IF isZeroAreaFace(positions, a, b, c)
  THEN [acc EXCEPT !.degenerateFaces = @ + 1]
  ELSE AnalyzeEdges(
         [acc EXCEPT !.vertexFaceCount =
            [k \in DOMAIN acc.vertexFaceCount |->
               acc.vertexFaceCount[k]
                 + (IF k = a + 1 THEN 1 ELSE 0)
                 + (IF k = b + 1 THEN 1 ELSE 0)
                 + (IF k = c + 1 THEN 1 ELSE 0)]],
         << getEdgeKey(a, b), getEdgeKey(b, c), getEdgeKey(c, a) >>, 1)

\* the turns for faces lo .. hi - 1 in order
RECURSIVE AnalyzeFaces(_, _, _, _, _)
AnalyzeFaces(acc, positions, indices, lo, hi) ==
  IF hi <= lo \/ DOMAIN acc = {} THEN acc
  ELSE IF hi = lo + 1
  THEN AnalyzeFace(acc, positions, indices[3 * lo + 1], indices[3 * lo + 2],
                   indices[3 * lo + 3])
  ELSE LET mid == (lo + hi) \div 2
       IN  AnalyzeFaces(AnalyzeFaces(acc, positions, indices, lo, mid),
                        positions, indices, mid, hi)

\* EdgeAndVertexCounts with actualEdges > expectedEdges for line 244
EdgeAndVertexCountsWithoutSlack(base, acc) ==
  [base EXCEPT
     !.degenerateFaces = acc.degenerateFaces,
     !.boundaryEdges =
        Cardinality({k \in DOMAIN acc.edgeCount : acc.edgeCount[k] = 1}),
     !.nonManifoldEdges =
        Cardinality({k \in DOMAIN acc.edgeCount : acc.edgeCount[k] > 2}),
     !.looseVertices =
        Cardinality({k \in 1..base.vertices : acc.vertexFaceCount[k] = 0}),
     !.nonManifoldVertices =
        Cardinality({k \in 1..base.vertices :
           /\ acc.vertexFaceCount[k] # 0
           /\ Cardinality(acc.vertexEdgeSet[k]) > acc.vertexFaceCount[k]})]

\* lines 226-249: the counts read off the maps the loop over faces built
EdgeAndVertexCounts(base, acc) ==
  [base EXCEPT
     !.degenerateFaces = acc.degenerateFaces,
     !.boundaryEdges =
        Cardinality({k \in DOMAIN acc.edgeCount : acc.edgeCount[k] = 1}),
     !.nonManifoldEdges =
        Cardinality({k \in DOMAIN acc.edgeCount : acc.edgeCount[k] > 2}),
     !.looseVertices =
        Cardinality({k \in 1..base.vertices : acc.vertexFaceCount[k] = 0}),
     !.nonManifoldVertices =
        Cardinality({k \in 1..base.vertices :
           /\ acc.vertexFaceCount[k] # 0
           /\ Cardinality(acc.vertexEdgeSet[k])
                > acc.vertexFaceCount[k] + 1})]

\* lines 159-171
BaseAnalysis(geometry) ==
  [vertices |-> Len(geometry.positions),
   faces3 |-> IF geometry.hasIndex THEN Len(geometry.index)
              ELSE Len(geometry.positions),
   duplicateVertices |-> countDuplicateVerticesFast(geometry.positions),
   looseVertices |-> 0,
   nonManifoldEdges |-> 0,
   nonManifoldVertices |-> 0,
   degenerateFaces |-> 0,
   boundaryEdges |-> 0]

\* lines 174-224: edgeCount, vertexFaceCount and vertexEdgeSet after the pass
\* over the faces of an indexed geometry
FaceMaps(geometry) ==
  AnalyzeFaces(
    [edgeCount |-> << >>,
     vertexFaceCount |-> [k \in 1..Len(geometry.positions) |-> 0],
     vertexEdgeSet |-> [k \in 1..Len(geometry.positions) |-> {}],
     degenerateFaces |-> 0],
    geometry.positions, geometry.index, 0, Len(geometry.index) \div 3)

analyzeSingleMesh(geometry) ==
  IF ~geometry.hasIndex THEN BaseAnalysis(geometry)
  ELSE EdgeAndVertexCounts(BaseAnalysis(geometry), FaceMaps(geometry))

(***************************************************************************)
(* A value of type number[] | null.                                        *)
(***************************************************************************)
Null == [some |-> FALSE, arr |-> << >>]
Some(arr) == [some |-> TRUE, arr |-> arr]

(***************************************************************************)
(* updateMeshGeometry: the geometry the mesh gets.  An attribute or an     *)
(* index buffer is set only when its array is non-null and not empty.      *)
(***************************************************************************)
updateMeshGeometry(positions, normals, uvs, indices) ==
  LET setNormal == normals.some /\ Len(normals.arr) > 0
      setUv == uvs.some /\ Len(uvs.arr) > 0
      setIndex == indices.some /\ Len(indices.arr) > 0
  IN  Geometry(positions,
               setNormal, IF setNormal THEN normals.arr ELSE << >>,
               setUv, IF setUv THEN uvs.arr ELSE << >>,
               setIndex, IF setIndex THEN indices.arr ELSE << >>)

(***************************************************************************)
(* mergeVerticesForMesh.  tolerance is a whole number of coordinate units  *)
(* (1 for the default 0.000001, 10 for 1e-5).                              *)
(***************************************************************************)
\* Math.round(x / tolerance): JavaScript rounds halves up
RoundDiv(x, tolerance) == (2 * x + tolerance) \div (2 * tolerance)

MergeKey(p, tolerance) ==
  << RoundDiv(p[1], tolerance) * tolerance,
     RoundDiv(p[2], tolerance) * tolerance,
     RoundDiv(p[3], tolerance) * tolerance >>

\* MergeStep that counts every vertex as merged, as if mergedCount++ of
\* line 434 stood after the else branch
MergeStepCountsAll(geometry, tolerance, i, acc) ==
  LET key == MergeKey(geometry.positions[i + 1], tolerance)
      seen == key \in DOMAIN acc.vertexMap
      newIndex == Len(acc.newPositions)
      vertexMap == IF seen THEN acc.vertexMap
                   ELSE [k \in DOMAIN acc.vertexMap \cup {key} |->
                           IF k = key THEN newIndex ELSE acc.vertexMap[k]]
  IN  [vertexMap |-> vertexMap,
       newPositions |->
          IF seen THEN acc.newPositions
          ELSE Append(acc.newPositions, geometry.positions[i + 1]),
       newNormals |->
          IF ~seen /\ geometry.hasNormal
          THEN Append(acc.newNormals, geometry.normals[i + 1])
          ELSE acc.newNormals,
       newUvs |->
          IF ~seen /\ geometry.hasUv /\ i + 1 <= Len(geometry.uvs)
          THEN Append(acc.newUvs, geometry.uvs[i + 1])
          ELSE acc.newUvs,
       mergedCount |-> acc.mergedCount + 1,
       indexRemap |-> Append(acc.indexRemap, vertexMap[key])]

\* MergeStep that keeps the vertex seen last for a key, as if the else
\* branch of line 433 wrote this vertex over the one stored for the key
MergeStepKeepsLast(geometry, tolerance, i, acc) ==
  LET key == MergeKey(geometry.positions[i + 1], tolerance)
      seen == key \in DOMAIN acc.vertexMap
      newIndex == Len(acc.newPositions)
      vertexMap == IF seen THEN acc.vertexMap
                   ELSE [k \in DOMAIN acc.vertexMap \cup {key} |->
                           IF k = key THEN newIndex ELSE acc.vertexMap[k]]
  IN  [vertexMap |-> vertexMap,
       newPositions |->
          IF seen
          THEN [acc.newPositions EXCEPT ![vertexMap[key] + 1] =
                  geometry.positions[i + 1]]
          ELSE Append(acc.newPositions, geometry.positions[i + 1]),
       newNormals |->
          IF ~seen /\ geometry.hasNormal
          THEN Append(acc.newNormals, geometry.normals[i + 1])
          ELSE acc.newNormals,
       newUvs |->
          IF ~seen /\ geometry.hasUv /\ i + 1 <= Len(geometry.uvs)
          THEN Append(acc.newUvs, geometry.uvs[i + 1])
          ELSE acc.newUvs,
       mergedCount |-> IF seen THEN acc.mergedCount + 1 ELSE acc.mergedCount,
       indexRemap |-> Append(acc.indexRemap, vertexMap[key])]

\* one turn of the loop of lines 416-438; i is the vertex number (the
\* code's i / 3)
MergeStep(geometry, tolerance, i, acc) ==
  LET key == MergeKey(geometry.positions[i + 1], tolerance)
      seen == key \in DOMAIN acc.vertexMap
      newIndex == Len(acc.newPositions)
      vertexMap == IF seen THEN acc.vertexMap
                   ELSE [k \in DOMAIN acc.vertexMap \cup {key} |->
                           IF k = key THEN newIndex ELSE acc.vertexMap[k]]
  IN  [vertexMap |-> vertexMap,
       newPositions |->
          IF seen THEN acc.newPositions
          ELSE Append(acc.newPositions, geometry.positions[i + 1]),
       newNormals |->
          IF ~seen /\ geometry.hasNormal
          THEN Append(acc.newNormals, geometry.normals[i + 1])
          ELSE acc.newNormals,
       newUvs |->
          IF ~seen /\ geometry.hasUv /\ i + 1 <= Len(geometry.uvs)
          THEN Append(acc.newUvs, geometry.uvs[i + 1])
          ELSE acc.newUvs,
       mergedCount |-> IF seen THEN acc.mergedCount + 1 ELSE acc.mergedCount,
       indexRemap |-> Append(acc.indexRemap, vertexMap[key])]

\* the turns for vertices lo .. hi - 1 in order
RECURSIVE MergeLoop(_, _, _, _, _)
MergeLoop(geometry, tolerance, lo, hi, acc) ==
  IF hi <= lo \/ DOMAIN acc = {} THEN acc
  ELSE IF hi = lo + 1 THEN MergeStep(geometry, tolerance, lo, acc)
  ELSE LET mid == (lo + hi) \div 2
       IN  MergeLoop(geometry, tolerance, mid, hi,
                     MergeLoop(geometry, tolerance, lo, mid, acc))

\* lines 440-445
MergeResult(geometry, acc) ==
  [geometry |->
     updateMeshGeometry(acc.newPositions,
        IF geometry.hasNormal THEN Some(acc.newNormals) ELSE Null,
        IF geometry.hasUv THEN Some(acc.newUvs) ELSE Null,
        IF geometry.hasIndex
        THEN Some([k \in 1..Len(geometry.index) |->
                     acc.indexRemap[geometry.index[k] + 1]])
        ELSE Null),
   count |-> acc.mergedCount]

mergeVerticesForMesh(geometry, tolerance) ==
  MergeResult(geometry,
    MergeLoop(geometry, tolerance, 0, Len(geometry.positions),
       [vertexMap |-> << >>, newPositions |-> << >>, newNormals |-> << >>,
        newUvs |-> << >>, mergedCount |-> 0, indexRemap |-> << >>]))

(***************************************************************************)
(* removeLooseVerticesForMesh.                                             *)
(***************************************************************************)
\* LooseStep that copies the normal of every vertex, kept or not, as if the
\* push of lines 508-514 stood outside the test of line 501
LooseStepAllNormals(geometry, usedVertices, i, acc) ==
  LET used == i \in usedVertices
  IN  [indexRemap |->
          IF used
          THEN [k \in DOMAIN acc.indexRemap \cup {i} |->
                  IF k = i THEN acc.newIndex ELSE acc.indexRemap[k]]
          ELSE acc.indexRemap,
       newPositions |->
          IF used THEN Append(acc.newPositions, geometry.positions[i + 1])
          ELSE acc.newPositions,
       newNormals |->
          IF geometry.hasNormal
          THEN Append(acc.newNormals, geometry.normals[i + 1])
          ELSE acc.newNormals,
       newUvs |->
          IF used /\ geometry.hasUv /\ i + 1 <= Len(geometry.uvs)
          THEN Append(acc.newUvs, geometry.uvs[i + 1])
          ELSE acc.newUvs,
       newIndex |-> IF used THEN acc.newIndex + 1 ELSE acc.newIndex,
       removedCount |-> IF used THEN acc.removedCount
                        ELSE acc.removedCount + 1]

\* LooseStep that maps a kept vertex to its old number, as if line 502 were
\* indexRemap.set(i, i)
LooseStepKeepsNumbers(geometry, usedVertices, i, acc) ==
  LET used == i \in usedVertices
  IN  [indexRemap |->
          IF used
          THEN [k \in DOMAIN acc.indexRemap \cup {i} |->
                  IF k = i THEN i ELSE acc.indexRemap[k]]
          ELSE acc.indexRemap,
       newPositions |->
          IF used THEN Append(acc.newPositions, geometry.positions[i + 1])
          ELSE acc.newPositions,
       newNormals |->
          IF used /\ geometry.hasNormal
          THEN Append(acc.newNormals, geometry.normals[i + 1])
          ELSE acc.newNormals,
       newUvs |->
          IF used /\ geometry.hasUv /\ i + 1 <= Len(geometry.uvs)
          THEN Append(acc.newUvs, geometry.uvs[i + 1])
          ELSE acc.newUvs,
       newIndex |-> IF used THEN acc.newIndex + 1 ELSE acc.newIndex,
       removedCount |-> IF used THEN acc.removedCount
                        ELSE acc.removedCount + 1]

\* one turn of the loop of lines 500-522
LooseStep(geometry, usedVertices, i, acc) ==
  LET used == i \in usedVertices
  IN  [indexRemap |->
          IF used
          THEN [k \in DOMAIN acc.indexRemap \cup {i} |->
                  IF k = i THEN acc.newIndex ELSE acc.indexRemap[k]]
          ELSE acc.indexRemap,
       newPositions |->
          IF used THEN Append(acc.newPositions, geometry.positions[i + 1])
          ELSE acc.newPositions,
       newNormals |->
          IF used /\ geometry.hasNormal
          THEN Append(acc.newNormals, geometry.normals[i + 1])
          ELSE acc.newNormals,
       newUvs |->
          IF used /\ geometry.hasUv /\ i + 1 <= Len(geometry.uvs)
          THEN Append(acc.newUvs, geometry.uvs[i + 1])
          ELSE acc.newUvs,
       newIndex |-> IF used THEN acc.newIndex + 1 ELSE acc.newIndex,
       removedCount |-> IF used THEN acc.removedCount
                        ELSE acc.removedCount + 1]

\* the turns for vertices lo .. hi - 1 in order
RECURSIVE LooseLoop(_, _, _, _, _)
LooseLoop(geometry, usedVertices, lo, hi, acc) ==
  IF hi <= lo \/ DOMAIN acc = {} THEN acc
  ELSE IF hi = lo + 1 THEN LooseStep(geometry, usedVertices, lo, acc)
  ELSE LET mid == (lo + hi) \div 2
       IN  LooseLoop(geometry, usedVertices, mid, hi,
                     LooseLoop(geometry, usedVertices, lo, mid, acc))

\* lines 524-529
LooseResult(geometry, acc) ==
  [geometry |->
     updateMeshGeometry(acc.newPositions,
        IF geometry.hasNormal THEN Some(acc.newNormals) ELSE Null,
        IF geometry.hasUv THEN Some(acc.newUvs) ELSE Null,
        Some([k \in 1..Len(geometry.index) |->
                acc.indexRemap[geometry.index[k]]])),
   count |-> acc.removedCount]

\* removeLooseVerticesForMesh without the test of lines 470-473, the missing
\* index buffer read as an empty one
removeLooseVerticesForMeshUnguarded(geometry) ==
  LooseResult(geometry,
    LooseLoop(geometry, Range(geometry.index), 0, Len(geometry.positions),
       [indexRemap |-> << >>, newPositions |-> << >>,
        newNormals |-> << >>, newUvs |-> << >>,
        newIndex |-> 0, removedCount |-> 0]))

removeLooseVerticesForMesh(geometry) ==
  IF ~geometry.hasIndex THEN [geometry |-> geometry, count |-> 0]
  ELSE LooseResult(geometry,
         LooseLoop(geometry, Range(geometry.index), 0, Len(geometry.positions),
            [indexRemap |-> << >>, newPositions |-> << >>,
             newNormals |-> << >>, newUvs |-> << >>,
             newIndex |-> 0, removedCount |-> 0]))

(***************************************************************************)
(* fixNonManifoldEdgesForMesh.  An edge key `${min}-${max}` is the pair    *)
(* <<min, max>>; geometry.setIndex keeps an index buffer, even an empty    *)
(* one.                                                                    *)
(***************************************************************************)
EdgeKeyString(v1, v2) == IF v1 < v2 THEN << v1, v2 >> ELSE << v2, v1 >>

\* lines 566-573 for corner j of face f
EdgeStep(indices, f, j, edges) ==
  LET v1 == indices[3 * f + j + 1]
      v2 == indices[3 * f + ((j + 1) % 3) + 1]
      edgeKey == EdgeKeyString(v1, v2)
      old == IF edgeKey \in DOMAIN edges THEN edges[edgeKey] ELSE << >>
  IN  [k \in DOMAIN edges \cup {edgeKey} |->
         IF k = edgeKey THEN Append(old, f) ELSE edges[k]]

\* the loop of lines 562-575 for faces lo .. hi - 1 in order
RECURSIVE EdgeFaceLists(_, _, _, _)
EdgeFaceLists(indices, lo, hi, edges) ==
  IF hi <= lo \/ DOMAIN edges = {<< >>} THEN edges
  ELSE IF hi = lo + 1
  THEN EdgeStep(indices, lo, 2,
         EdgeStep(indices, lo, 1, EdgeStep(indices, lo, 0, edges)))
  ELSE LET mid == (lo + hi) \div 2
       IN  EdgeFaceLists(indices, mid, hi,
                         EdgeFaceLists(indices, lo, mid, edges))

\* lines 577-583
FacesToRemove(edges) ==
  UNION { { edges[k][n] : n \in 3..Len(edges[k]) } : k \in DOMAIN edges }

\* the faces lo .. hi - 1 of indices, in order, without those in drop
\* (lines 585-591)
RECURSIVE KeepFaces(_, _, _, _)
KeepFaces(indices, lo, hi, drop) ==
  IF hi <= lo THEN << >>
  ELSE IF hi = lo + 1
  THEN (IF lo \in drop THEN << >>
        ELSE << indices[3 * lo + 1], indices[3 * lo + 2],
                indices[3 * lo + 3] >>)
  ELSE LET mid == (lo + hi) \div 2
       IN  KeepFaces(indices, lo, mid, drop) \o KeepFaces(indices, mid, hi, drop)

FaceCount(indices) == Len(indices) \div 3

\* lines 585-595: the index buffer without the faces in facesToRemove
WithoutFaces(geometry, facesToRemove) ==
  [geometry |->
     [geometry EXCEPT
        !.index = KeepFaces(geometry.index, 0, FaceCount(geometry.index),
                            facesToRemove)],
   count |-> Cardinality(facesToRemove)]

fixNonManifoldEdgesForMesh(geometry) ==
  IF ~geometry.hasIndex THEN [geometry |-> geometry, count |-> 0]
  ELSE WithoutFaces(geometry,
         FacesToRemove(EdgeFaceLists(geometry.index, 0,
                                     FaceCount(geometry.index), << >>)))

(***************************************************************************)
(* removeDegenerateFacesForMesh: cross.length() < tolerance.               *)
(***************************************************************************)
IsDegenerateFace(positions, a, b, c) ==
  \/ a = b \/ b = c \/ c = a
  \/ LengthSqBelowTolerance(Cross(positions[a + 1], positions[b + 1],
                                  positions[c + 1]))

removeDegenerateFacesForMesh(geometry) ==
  IF ~geometry.hasIndex THEN [geometry |-> geometry, count |-> 0]
  ELSE WithoutFaces(geometry,
         { f \in 0..(FaceCount(geometry.index) - 1) :
             IsDegenerateFace(geometry.positions, geometry.index[3 * f + 1],
                              geometry.index[3 * f + 2],
                              geometry.index[3 * f + 3]) })

(***************************************************************************)
(* BufferGeometry.computeVertexNormals (three.js): the geometry gets a     *)
(* normal attribute with one computed normal per vertex.                   *)
(***************************************************************************)
computeVertexNormals(geometry) ==
  [geometry EXCEPT !.hasNormal = TRUE,
                   !.normals = [k \in 1..Len(geometry.positions) |-> 0]]

MeshIssues(analysis) ==
  analysis.duplicateVertices + analysis.looseVertices
    + analysis.nonManifoldEdges + analysis.nonManifoldVertices
    + analysis.degenerateFaces


(***************************************************************************)
(* The repairer and the scene it works on, as one value:                   *)
(*   [scene, meshes, analysisResults, log].                                *)
(* A public method maps such a value to [st |-> the value after the call,  *)
(* ret |-> what the call returned].                                        *)
(***************************************************************************)
Logged(st, kind, name) == [st EXCEPT !.log = Append(@, << kind, name >>)]

\* extractMeshes: every node of the scene is a mesh with a position
\* attribute; originalGeometry is a clone of the geometry as it is now
extractMeshes(st) ==
  [st EXCEPT !.meshes =
     [k \in 1..Len(st.scene) |->
        [mesh |-> k, originalGeometry |-> st.scene[k]]]]

\* the scene and the total after this.meshes.forEach; out[k] is what the
\* pass made of the mesh of meshes[k]
AfterPasses(st, out) ==
  [st |-> [st EXCEPT !.scene =
             [m \in 1..Len(st.scene) |->
                IF \E k \in 1..Len(st.meshes) : st.meshes[k].mesh = m
                THEN out[CHOOSE k \in 1..Len(st.meshes) :
                           st.meshes[k].mesh = m].geometry
                ELSE st.scene[m]]],
   ret |-> SumSeq([k \in 1..Len(out) |-> out[k].count])]

\* the public passes: extractMeshes, then this.meshes.forEach over the
\* meshes just extracted (meshes[k] is mesh k of the scene)
mergeVertices(st, tolerance) ==
  AfterPasses(Logged(extractMeshes(st), "call", "mergeVertices"),
    [k \in 1..Len(st.scene) |-> mergeVerticesForMesh(st.scene[k], tolerance)])

removeLooseVertices(st) ==
  AfterPasses(Logged(extractMeshes(st), "call", "removeLooseVertices"),
    [k \in 1..Len(st.scene) |-> removeLooseVerticesForMesh(st.scene[k])])

fixNonManifoldEdges(st) ==
  AfterPasses(Logged(extractMeshes(st), "call", "fixNonManifoldEdges"),
    [k \in 1..Len(st.scene) |-> fixNonManifoldEdgesForMesh(st.scene[k])])

removeDegenerateFaces(st) ==
  AfterPasses(Logged(extractMeshes(st), "call", "removeDegenerateFaces"),
    [k \in 1..Len(st.scene) |-> removeDegenerateFacesForMesh(st.scene[k])])

\* returns this.meshes.length
recalculateNormals(st) ==
  AfterPasses(Logged(extractMeshes(st), "call", "recalculateNormals"),
    [k \in 1..Len(st.scene) |->
       [geometry |-> computeVertexNormals(st.scene[k]), count |-> 1]])

\* TotalStats with the loose vertices left out of totalIssues, as if the
\* sum of line 136 had lost a term
TotalStatsWithoutLoose(meshAnalysis) ==
  LET Total(field(_)) ==
        SumSeq([k \in 1..Len(meshAnalysis) |-> field(meshAnalysis[k])])
      vertices(a) == a.vertices
      faces3(a) == a.faces3
      duplicateVertices(a) == a.duplicateVertices
      looseVertices(a) == a.looseVertices
      nonManifoldEdges(a) == a.nonManifoldEdges
      nonManifoldVertices(a) == a.nonManifoldVertices
      degenerateFaces(a) == a.degenerateFaces
      boundaryEdges(a) == a.boundaryEdges
  IN  [meshes |-> Len(meshAnalysis),
       vertices |-> Total(vertices),
       faces3 |-> Total(faces3),
       duplicateVertices |-> Total(duplicateVertices),
       looseVertices |-> Total(looseVertices),
       nonManifoldEdges |-> Total(nonManifoldEdges),
       nonManifoldVertices |-> Total(nonManifoldVertices),
       degenerateFaces |-> Total(degenerateFaces),
       boundaryEdges |-> Total(boundaryEdges),
       totalIssues |->
         Total(duplicateVertices) + Total(nonManifoldEdges)
           + Total(nonManifoldVertices) + Total(degenerateFaces)]

\* TotalStats with the boundary edges counted among the issues
TotalStatsWithBoundary(meshAnalysis) ==
  LET Total(field(_)) ==
        SumSeq([k \in 1..Len(meshAnalysis) |-> field(meshAnalysis[k])])
      vertices(a) == a.vertices
      faces3(a) == a.faces3
      duplicateVertices(a) == a.duplicateVertices
      looseVertices(a) == a.looseVertices
      nonManifoldEdges(a) == a.nonManifoldEdges
      nonManifoldVertices(a) == a.nonManifoldVertices
      degenerateFaces(a) == a.degenerateFaces
      boundaryEdges(a) == a.boundaryEdges
  IN  [meshes |-> Len(meshAnalysis),
       vertices |-> Total(vertices),
       faces3 |-> Total(faces3),
       duplicateVertices |-> Total(duplicateVertices),
       looseVertices |-> Total(looseVertices),
       nonManifoldEdges |-> Total(nonManifoldEdges),
       nonManifoldVertices |-> Total(nonManifoldVertices),
       degenerateFaces |-> Total(degenerateFaces),
       boundaryEdges |-> Total(boundaryEdges),
       totalIssues |->
         Total(duplicateVertices) + Total(looseVertices)
           + Total(nonManifoldEdges) + Total(nonManifoldVertices)
           + Total(degenerateFaces) + Total(boundaryEdges)]

\* lines 95-142: the sums over the per-mesh analyses
TotalStats(meshAnalysis) ==
  LET Total(field(_)) ==
        SumSeq([k \in 1..Len(meshAnalysis) |-> field(meshAnalysis[k])])
      vertices(a) == a.vertices
      faces3(a) == a.faces3
      duplicateVertices(a) == a.duplicateVertices
      looseVertices(a) == a.looseVertices
      nonManifoldEdges(a) == a.nonManifoldEdges
      nonManifoldVertices(a) == a.nonManifoldVertices
      degenerateFaces(a) == a.degenerateFaces
      boundaryEdges(a) == a.boundaryEdges
  IN  [meshes |-> Len(meshAnalysis),
       vertices |-> Total(vertices),
       faces3 |-> Total(faces3),
       duplicateVertices |-> Total(duplicateVertices),
       looseVertices |-> Total(looseVertices),
       nonManifoldEdges |-> Total(nonManifoldEdges),
       nonManifoldVertices |-> Total(nonManifoldVertices),
       degenerateFaces |-> Total(degenerateFaces),
       boundaryEdges |-> Total(boundaryEdges),
       totalIssues |->
         Total(duplicateVertices) + Total(looseVertices)
           + Total(nonManifoldEdges) + Total(nonManifoldVertices)
           + Total(degenerateFaces)]

Analyzed(st, meshAnalysis) ==
  [st |-> Logged([st EXCEPT !.analysisResults = meshAnalysis],
                 "call", "analyzeGeometry"),
   ret |-> [totalStats |-> TotalStats(meshAnalysis),
            meshAnalysis |-> meshAnalysis]]

\* analyzeGeometry: ret is the AnalysisResult
analyzeGeometry(st) ==
  Analyzed(extractMeshes(st),
           [k \in 1..Len(st.scene) |-> analyzeSingleMesh(st.scene[k])])

\* hasIssues with the duplicate vertices counted as an issue too
hasIssuesOrDuplicates(totalStats) ==
  \/ totalStats.nonManifoldEdges > 0
  \/ totalStats.nonManifoldVertices > 0
  \/ totalStats.degenerateFaces > 0
  \/ totalStats.looseVertices > 0
  \/ totalStats.duplicateVertices > 0

\* lines 336-340
hasIssues(totalStats) ==
  \/ totalStats.nonManifoldEdges > 0
  \/ totalStats.nonManifoldVertices > 0
  \/ totalStats.degenerateFaces > 0
  \/ totalStats.looseVertices > 0

\* lines 342-356: the warning or the line that says validation passed
Validated(an, issues) ==
  [st |-> Logged(an.st, IF issues THEN "warn" ELSE "passed",
                 "validateManifoldGeometry"),
   ret |-> ~issues]

\* validateManifoldGeometry: ret is the boolean
validateManifoldGeometry(st) ==
  Validated(analyzeGeometry(st), hasIssues(analyzeGeometry(st).ret.totalStats))

\* resetToOriginal
resetToOriginal(st) ==
  [st EXCEPT !.scene =
     [m \in 1..Len(st.scene) |->
        IF \E k \in 1..Len(st.meshes) : st.meshes[k].mesh = m
        THEN st.meshes[CHOOSE k \in 1..Len(st.meshes) :
                         st.meshes[k].mesh = m].originalGeometry
        ELSE st.scene[m]]]

(***************************************************************************)
(* performIterativeRepair.                                                 *)
(***************************************************************************)
maxIterations == 3

\* RepairIteration without its last call, as if line 787 were missing
RepairIterationWithoutFix(st, tolerance) ==
  mergeVertices(removeDegenerateFaces(st).st, tolerance).st

\* lines 785-787
RepairIteration(st, tolerance) ==
  fixNonManifoldEdges(
    mergeVertices(removeDegenerateFaces(st).st, tolerance).st).st

\* the loop of lines 772-789; an is the analysis of line 773
RECURSIVE IterativeRepairFrom(_, _, _, _)
AfterAnalysis(an, tolerance, iteration, totalIterations) ==
  IF ~(\/ an.ret.totalStats.nonManifoldEdges > 0
       \/ an.ret.totalStats.nonManifoldVertices > 0
       \/ an.ret.totalStats.degenerateFaces > 0)
  THEN [st |-> Logged(an.st, "manifold", "performIterativeRepair"),
        ret |-> totalIterations]
  ELSE IterativeRepairFrom(
         RepairIteration(Logged(an.st, "iteration", "performIterativeRepair"),
                         tolerance),
         tolerance, iteration + 1, totalIterations + 1)

IterativeRepairFrom(st, tolerance, iteration, totalIterations) ==
  IF iteration >= maxIterations THEN [st |-> st, ret |-> totalIterations]
  ELSE AfterAnalysis(analyzeGeometry(st), tolerance, iteration,
                     totalIterations)

performIterativeRepair(st, tolerance) == IterativeRepairFrom(st, tolerance, 0, 0)

(***************************************************************************)
(* repairGeometry.  The call runs to its first await; each resumption runs *)
(* from one await to the next, or to the return.                           *)
(***************************************************************************)
\* Operations with fixNonManifoldEdges ahead of removeLooseVertices, as if two
\* entries of the array of lines 702-723 had changed places
OperationsOutOfOrder(ensureManifold) ==
  << "mergeVertices", "fixNonManifoldEdges", "removeLooseVertices",
     "removeDegenerateFaces", "recalculateNormals" >>
  \o (IF ensureManifold THEN << "validateAndReRepair" >> ELSE << >>)

Operations(ensureManifold) ==
  << "mergeVertices", "removeLooseVertices", "fixNonManifoldEdges",
     "removeDegenerateFaces", "recalculateNormals" >>
  \o (IF ensureManifold THEN << "validateAndReRepair" >> ELSE << >>)

\* operation.fn()
RunOperation(st, name, mergeTolerance) ==
  CASE name = "mergeVertices" -> mergeVertices(st, mergeTolerance)
    [] name = "removeLooseVertices" -> removeLooseVertices(st)
    [] name = "fixNonManifoldEdges" -> fixNonManifoldEdges(st)
    [] name = "removeDegenerateFaces" -> removeDegenerateFaces(st)
    [] name = "recalculateNormals" -> recalculateNormals(st)
    [] name = "validateAndReRepair" -> performIterativeRepair(st, mergeTolerance)

\* lines 755-762
Returned(an, i) ==
  [pc |-> "done", st |-> an.st, opIndex |-> i, pending |-> 0,
   finalAnalysis |-> an.ret]

\* suspended at the await of line 747 with the value r.ret of operation.fn()
Awaiting(r, i) ==
  [pc |-> "await", st |-> r.st, opIndex |-> i, pending |-> r.ret]

\* the for loop of lines 738-753 from i (0-based) up to the next await, or
\* past the loop to the return of line 759
RECURSIVE RunToAwait(_, _, _)
RunToAwait(st, o, i) ==
  IF i >= Len(Operations(o.ensureManifold))
  THEN Returned(analyzeGeometry(Logged(st, "finished", "repairGeometry")), i)
  ELSE IF Operations(o.ensureManifold)[i + 1] \in o.skipOperations
  THEN RunToAwait(Logged(st, "Skipping", Operations(o.ensureManifold)[i + 1]),
                  o, i + 1)
  ELSE Awaiting(
         RunOperation(
           Logged(st, "Running", Operations(o.ensureManifold)[i + 1]),
           Operations(o.ensureManifold)[i + 1], o.mergeTolerance),
         i)

(***************************************************************************)
(* Inputs.  Generated geometries take the first n <= MaxVerts vertices of  *)
(* a layout and up to MaxFaces faces over them; the fixtures are the       *)
(* scenes of the documented test cases.                                    *)
(***************************************************************************)
\* no two points equal, no three on a line
GeneralPoint(i) == << 2000 * i, 2000 * i * i, 0 >>
\* vertices 2k and 2k + 1 at the same point
ExactPoint(i) == GeneralPoint(i \div 2)
\* vertices 2k and 2k + 1 four units apart: one point at tolerance 10 only
NearPoint(i) == << GeneralPoint(i \div 2)[1] + 4 * (i % 2),
                   GeneralPoint(i \div 2)[2], 0 >>
\* vertices 0, 1, 2 on one line, vertices 3, 4, 5 on another
LinePoint(i) == << 2000 * i, IF i >= 3 THEN 2000 ELSE 0, 0 >>

Layouts(n) ==
  { [k \in 1..n |-> GeneralPoint(k - 1)], [k \in 1..n |-> ExactPoint(k - 1)],
    [k \in 1..n |-> NearPoint(k - 1)], [k \in 1..n |-> LinePoint(k - 1)] }

\* the faces a generated index buffer is made of: corners in ascending
\* order with at most one repeated, or three distinct in descending order
FaceChoices(n) ==
  { << a, b, c >> : a \in 0..(n - 1), b \in 0..(n - 1), c \in 0..(n - 1) } \cap
  { f \in (0..(n - 1)) \X (0..(n - 1)) \X (0..(n - 1)) :
      \/ f[1] <= f[2] /\ f[2] <= f[3] /\ f[1] # f[3]
      \/ f[1] > f[2] /\ f[2] > f[3] }

RECURSIVE Flatten(_)
Flatten(faces) ==
  IF faces = << >> THEN << >> ELSE Head(faces) \o Flatten(Tail(faces))

FaceLists(n) ==
  UNION { [1..m -> FaceChoices(n)] : m \in 0..MaxFaces }

Tags(n) == [k \in 1..n |-> k]

\* with both attributes or with none
WithAttributes(positions, attrs, hasIndex, index) ==
  Geometry(positions,
           attrs, IF attrs THEN Tags(Len(positions)) ELSE << >>,
           attrs, IF attrs THEN Tags(Len(positions)) ELSE << >>,
           hasIndex, index)

GeneratedGeometries ==
  UNION { UNION { { WithAttributes(positions, attrs, TRUE, Flatten(faces)) :
                      faces \in FaceLists(n), attrs \in BOOLEAN }
                  \cup { WithAttributes(positions, attrs, FALSE, << >>) :
                           attrs \in BOOLEAN }
                  : positions \in Layouts(n) }
          : n \in 0..MaxVerts }

\* three triangles on the common edge 0-1
Fan3 ==
  WithAttributes([k \in 1..5 |-> GeneralPoint(k - 1)], TRUE, TRUE,
                 << 0, 1, 2, 0, 1, 3, 0, 1, 4 >>)
\* two triangles that meet in vertex 0 only
Bowtie ==
  WithAttributes([k \in 1..5 |-> GeneralPoint(k - 1)], FALSE, TRUE,
                 << 0, 1, 2, 0, 3, 4 >>)
\* a flat quad split along the diagonal 0-2
Quad ==
  WithAttributes(<< << 0, 0, 0 >>, << 2000, 0, 0 >>, << 2000, 2000, 0 >>,
                    << 0, 2000, 0 >> >>, TRUE, TRUE, << 0, 1, 2, 0, 2, 3 >>)

\* the cube: corner k is at bit 0, 1, 2 of k along x, y, z
CubeCorner(k) == << 2000 * (k % 2), 2000 * ((k \div 2) % 2), 2000 * (k \div 4) >>
CubeFaces ==
  << 0, 1, 3,  0, 3, 2,  4, 5, 7,  4, 7, 6,  0, 1, 5,  0, 5, 4,
     2, 3, 7,  2, 7, 6,  0, 2, 6,  0, 6, 4,  1, 3, 7,  1, 7, 5 >>
WeldedCube ==
  WithAttributes([k \in 1..8 |-> CubeCorner(k - 1)], FALSE, TRUE, CubeFaces)
\* 12 independent triangles, 36 vertices
UnweldedPositions == [k \in 1..36 |-> CubeCorner(CubeFaces[k])]
UnweldedCubeIndexed ==
  WithAttributes(UnweldedPositions, FALSE, TRUE, [k \in 1..36 |-> k - 1])
UnweldedCubeNonIndexed ==
  WithAttributes(UnweldedPositions, FALSE, FALSE, << >>)

\* a triangle two of whose corners, (0.005, 0.058, 0.025) and
\* (0.025, 0.009, 0.014), are different points with the same 32-bit hash
HashTwins ==
  WithAttributes(<< << 5000, 58000, 25000 >>, << 25000, 9000, 14000 >>,
                    << 0, 0, 0 >> >>, FALSE, TRUE, << 0, 1, 2 >>)

Fixtures ==
  { << Fan3 >>, << Bowtie >>, << Quad >>, << WeldedCube >>,
    << UnweldedCubeIndexed >>, << UnweldedCubeNonIndexed >>,
    << Quad, Fan3 >>, << Bowtie, UnweldedCubeNonIndexed >>, << >>,
    << HashTwins >> }

Scenes == { << g >> : g \in GeneratedGeometries } \cup Fixtures

(***************************************************************************)
(* The options of a repairGeometry call.  mergeTolerance is in coordinate  *)
(* units: 1 is the default 0.000001, 10 is the 1e-5 that exportSceneToSvg  *)
(* passes.                                                                 *)
(***************************************************************************)
DefaultTolerance == 1
ExportTolerance == 10

OperationNames ==
  { "mergeVertices", "removeLooseVertices", "fixNonManifoldEdges",
    "removeDegenerateFaces", "recalculateNormals", "validateAndReRepair" }

SkipLists ==
  { {} } \cup { { n } : n \in OperationNames }
         \cup { { "removeLooseVertices", "fixNonManifoldEdges",
                  "removeDegenerateFaces" },
                OperationNames \ { "validateAndReRepair" } }

RepairOptions ==
  { [mergeTolerance |-> t, onProgress |-> p, skipOperations |-> k,
     ensureManifold |-> e] :
      t \in { DefaultTolerance, ExportTolerance }, p \in BOOLEAN,
      k \in SkipLists, e \in BOOLEAN } \
  { o \in [mergeTolerance : { DefaultTolerance, ExportTolerance },
           onProgress : BOOLEAN, skipOperations : SkipLists,
           ensureManifold : BOOLEAN] :
      ~o.onProgress /\ (o.skipOperations # {} \/ o.ensureManifold) }

NoOptions ==
  [mergeTolerance |-> DefaultTolerance, onProgress |-> FALSE,
   skipOperations |-> {}, ensureManifold |-> FALSE]

NoStats ==
  [meshes |-> 0, vertices |-> 0, faces3 |-> 0, duplicateVertices |-> 0,
   looseVertices |-> 0, nonManifoldEdges |-> 0, nonManifoldVertices |-> 0,
   degenerateFaces |-> 0, boundaryEdges |-> 0, totalIssues |-> 0]
NoAnalysis == [totalStats |-> NoStats, meshAnalysis |-> << >>]

(***************************************************************************)
(* The Object3D hierarchy.  Nodes are numbered 1..Len(parent); parent[n]   *)
(* is the node n hangs under, 0 for none; isMesh[n] tells a mesh from a    *)
(* container; root is the node the repairer is given as object3D.  The     *)
(* meshes below root, in the order traverse visits them, are the meshes    *)
(* of the scene.                                                           *)
(***************************************************************************)
Children(g, n) == { c \in 1..Len(g.parent) : g.parent[c] = n }

\* the elements of a set of numbers in ascending order
RECURSIVE Ascending(_)
Ascending(set) ==
  IF set = {} THEN << >>
  ELSE LET least == CHOOSE x \in set : \A y \in set : x <= y
       IN  << least >> \o Ascending(set \ { least })

\* Object3D.traverse from node n: the node, then its children's subtrees
RECURSIVE Traverse(_, _)
RECURSIVE TraverseAll(_, _)
Traverse(g, n) == << n >> \o TraverseAll(g, Ascending(Children(g, n)))
TraverseAll(g, nodes) ==
  IF nodes = << >> THEN << >>
  ELSE Traverse(g, Head(nodes)) \o TraverseAll(g, Tail(nodes))

\* the nodes extractMeshes finds, in order
MeshNodes(g) ==
  LET IsMeshNode(n) == g.isMesh[n]
  IN  SelectSeq(Traverse(g, g.root), IsMeshNode)

\* Object3D.remove (three.js): object leaves from only if it is one of
\* from's own children
Remove(g, from, object) ==
  IF g.parent[object] = from THEN [g EXCEPT !.parent[object] = 0] ELSE g

\* removeEmptyParents; object = 0 is null
RECURSIVE removeEmptyParents(_, _)
removeEmptyParents(g, object) ==
  IF object = 0 THEN g
  ELSE IF Children(g, object) = {} /\ g.parent[object] # 0
  THEN removeEmptyParents(Remove(g, g.parent[object], object),
                          g.parent[object])
  ELSE g

\* lines 850-855
hasTooManyIssues(result, options) ==
  \/ result.duplicateVertices > options.maxDuplicateVertices
  \/ result.looseVertices > options.maxLooseVertices
  \/ result.nonManifoldEdges > options.maxNonManifoldEdges
  \/ result.nonManifoldVertices > options.maxNonManifoldVertices
  \/ result.degenerateFaces > options.maxDegenerateFaces

\* the forEach of lines 849-869 from result index (1-based) on; found is
\* the sequence of mesh nodes extractMeshes found
RECURSIVE RemoveFrom(_, _, _, _, _, _)
RemoveFrom(g, found, analysis, options, index, removedCount) ==
  IF index > Len(analysis) THEN [graph |-> g, ret |-> removedCount]
  ELSE IF hasTooManyIssues(analysis[index], options)
  THEN RemoveFrom(
         removeEmptyParents(Remove(g, g.root, found[index]),
                            g.parent[found[index]]),
         found, analysis, options, index + 1, removedCount + 1)
  ELSE RemoveFrom(g, found, analysis, options, index + 1, removedCount)

\* removeMeshesWithIssues, after its analyzeGeometry call returned an
Removed(an, g, options) ==
  [st |-> an.st,
   out |-> RemoveFrom(g, MeshNodes(g), an.st.analysisResults, options, 1, 0)]

removeMeshesWithIssues(st, g, options) ==
  Removed(analyzeGeometry(st), g, options)

\* the geometries of the meshes below the root of g, those of before being
\* the geometries of the meshes below the root of before
SceneOf(g, before, geometries) ==
  LET kept == MeshNodes(g)
      Place(n) == CHOOSE k \in 1..Len(MeshNodes(before)) :
                    MeshNodes(before)[k] = n
  IN  [k \in 1..Len(kept) |-> geometries[Place(kept[k])]]

\* n meshes right under the root
FlatGraph(n) ==
  [parent |-> [k \in 1..(n + 1) |-> IF k = 1 THEN 0 ELSE 1],
   isMesh |-> [k \in 1..(n + 1) |-> k # 1],
   root |-> 1]

\* the hierarchies of up to MaxNodes nodes: every node hangs under an
\* earlier one, containers and meshes; the root is node 1, or node 2 under
\* node 1 (an object3D that has a parent itself); meshes have no children
MaxNodes == 4

Graphs ==
  { g \in UNION { [parent : { p \in [1..n -> 0..n] :
                                /\ p[1] = 0
                                /\ \A k \in 2..n : p[k] \in 1..(k - 1) },
                   isMesh : [1..n -> BOOLEAN],
                   root : { 1, 2 } \cap (1..n)] : n \in 1..MaxNodes } :
      /\ ~g.isMesh[1]
      /\ ~g.isMesh[g.root]
      /\ \A k \in 1..Len(g.parent) :
           g.isMesh[k] => /\ Children(g, k) = {}
                          /\ k \in Range(Traverse(g, g.root)) }

\* the thresholds: all at their default 0, or one non-manifold edge allowed
Thresholds(edges) ==
  [maxDuplicateVertices |-> 0, maxLooseVertices |-> 0,
   maxNonManifoldEdges |-> edges, maxNonManifoldVertices |-> 0,
   maxDegenerateFaces |-> 0]
NoThresholds == Thresholds(0)

(***************************************************************************)
(* The state machine.                                                      *)
(***************************************************************************)
Repairer == [scene |-> scene, meshes |-> meshes,
             analysisResults |-> analysisResults, log |-> log]

\* no edge key asked for
NoKeys == [pairs |-> << >>, keys |-> << >>, decoded |-> << >>]

\* exportSceneToSvg not called
NoExport ==
  [stage |-> "idle", gizmoVisible |-> TRUE, generateSVG |-> 0,
   generateVisibleEdgesSVG |-> 0, caught |-> "none", svg |-> "",
   thrown |-> "none", downloaded |-> << >>]

\* no OBJ text given
NoObj ==
  [text |-> << >>, meshData |-> << >>, written |-> << >>, stage |-> "none",
   options |-> << >>, results |-> << >>, progress |-> << >>]

\* no repairGeometry call made on any object
NoSessions ==
  [world |-> << >>, call |-> << >>, input |-> << >>, interleaved |-> FALSE]

\* no simulation made
NoSar ==
  [stage |-> "none", aperturePath |-> << >>, captures |-> 0,
   radarReturns |-> << >>, onProgress |-> FALSE, progress |-> << >>,
   error |-> "none", image |-> "none"]

UnitsIdle ==
  /\ edgeKeys = NoKeys
  /\ svgExport = NoExport
  /\ obj = NoObj
  /\ sar = NoSar
  /\ sessions = NoSessions

\* a repairer as its constructor leaves it, no call made
NewRepairer ==
  /\ meshes = << >>
  /\ analysisResults = << >>
  /\ pc = "idle"
  /\ opts = NoOptions
  /\ opIndex = 0
  /\ pending = 0
  /\ results = << >>
  /\ progress = << >>
  /\ log = << >>
  /\ finalAnalysis = NoAnalysis
  /\ lastOp = "none"
  /\ ret = 0
  /\ lastTolerance = 0

Init ==
  /\ scene \in Scenes
  /\ input = scene
  /\ NewRepairer
  /\ graph = FlatGraph(Len(scene))
  /\ removeOptions = NoThresholds
  /\ UnitsIdle

sessionVars == << pc, opts, opIndex, pending, results, progress, log,
                  finalAnalysis >>

\* a public pass called on its own: its console lines are not kept
Standalone(name, tolerance, r) ==
  /\ pc = "idle"
  /\ lastTolerance' = tolerance
  /\ scene' = r.st.scene
  /\ meshes' = r.st.meshes
  /\ analysisResults' = r.st.analysisResults
  /\ lastOp' = name
  /\ ret' = r.ret
  /\ UNCHANGED << sessionVars, input, otherVars >>

MergeVertices ==
  \E tolerance \in { DefaultTolerance, ExportTolerance } :
    Standalone("mergeVertices", tolerance, mergeVertices(Repairer, tolerance))

RemoveLooseVertices ==
  Standalone("removeLooseVertices", 0, removeLooseVertices(Repairer))

FixNonManifoldEdges ==
  Standalone("fixNonManifoldEdges", 0, fixNonManifoldEdges(Repairer))

RemoveDegenerateFaces ==
  Standalone("removeDegenerateFaces", 0, removeDegenerateFaces(Repairer))

RecalculateNormals ==
  Standalone("recalculateNormals", 0, recalculateNormals(Repairer))

\* resetToOriginal, called when no repairGeometry call is suspended
ResetToOriginal ==
  /\ pc \in { "idle", "done" }
  /\ scene' = resetToOriginal(Repairer).scene
  /\ lastOp' = "resetToOriginal"
  /\ ret' = 0
  /\ lastTolerance' = 0
  /\ UNCHANGED << meshes, analysisResults, sessionVars, input, otherVars >>

Suspend(r) ==
  /\ pc' = r.pc
  /\ scene' = r.st.scene
  /\ meshes' = r.st.meshes
  /\ analysisResults' = r.st.analysisResults
  /\ log' = r.st.log
  /\ opIndex' = r.opIndex
  /\ pending' = r.pending
  /\ finalAnalysis' = IF r.pc = "done" THEN r.finalAnalysis ELSE finalAnalysis

\* repairGeometry(object3D, options) on a new repairer, up to its first await
RepairGeometry ==
  \E o \in RepairOptions :
    /\ pc = "idle"
    /\ lastOp = "none"
    /\ opts' = o
    /\ Suspend(RunToAwait(extractMeshes(Repairer), o, 0))
    /\ lastOp' = "repairGeometry"
    /\ UNCHANGED << results, progress, ret, lastTolerance, input, otherVars >>

\* ProgressCall with i / operations.length for the percent
ProgressCallZeroBased(i, operations) ==
  [percent |-> << i * 100, Len(operations) >>, operation |-> operations[i + 1]]

\* line 751: the arguments of onProgress after operations[i]; percent is
\* the fraction ((i + 1) * 100) / operations.length, << numerator,
\* denominator >>
ProgressCall(i, operations) ==
  [percent |-> << (i + 1) * 100, Len(operations) >>,
   operation |-> operations[i + 1]]

\* the continuation after the await: lines 748-752, then on with the loop
Resume ==
  /\ pc = "await"
  /\ LET operations == Operations(opts.ensureManifold)
         name == operations[opIndex + 1]
     IN  /\ results' = [n \in DOMAIN results \cup { name } |->
                          IF n = name THEN pending ELSE results[n]]
         /\ progress' = IF opts.onProgress
                        THEN Append(progress, ProgressCall(opIndex, operations))
                        ELSE progress
  /\ Suspend(RunToAwait(Repairer, opts, opIndex + 1))
  /\ UNCHANGED << opts, lastOp, ret, lastTolerance, input, otherVars >>

Next ==
  \/ MergeVertices
  \/ RemoveLooseVertices
  \/ FixNonManifoldEdges
  \/ RemoveDegenerateFaces
  \/ RecalculateNormals
  \/ ResetToOriginal
  \/ RepairGeometry
  \/ Resume

Spec == Init /\ [][Next]_vars

(***************************************************************************)
(* A client that prunes a hierarchy: removeMeshesWithIssues on a new       *)
(* repairer, and again.  The meshes are flat quads (no defect) and fans of *)
(* three triangles on one edge (one non-manifold edge).                    *)
(***************************************************************************)
HierarchyInit ==
  /\ graph \in Graphs
  /\ scene \in [1..Len(MeshNodes(graph)) -> { Quad, Fan3 }]
  /\ input = scene
  /\ NewRepairer
  /\ removeOptions = NoThresholds
  /\ UnitsIdle

RemoveMeshesWithIssues ==
  \E edges \in 0..1 :
    LET r == removeMeshesWithIssues(Repairer, graph, Thresholds(edges))
    IN  /\ pc = "idle"
        /\ removeOptions' = Thresholds(edges)
        /\ graph' = r.out.graph
        /\ scene' = SceneOf(r.out.graph, graph, scene)
        /\ meshes' = r.st.meshes
        /\ analysisResults' = r.st.analysisResults
        /\ lastOp' = "removeMeshesWithIssues"
        /\ ret' = r.out.ret
        /\ lastTolerance' = 0
        /\ UNCHANGED << sessionVars, input, unitVars >>

HierarchyNext == RemoveMeshesWithIssues

HierarchySpec == HierarchyInit /\ [][HierarchyNext]_vars

(***************************************************************************)
(* The analyzer called on its own: analyzeGeometry and                     *)
(* validateManifoldGeometry on a new repairer.                             *)
(***************************************************************************)
\* vertices 0, 1, 2 on one line: a zero-area face with three different
\* corners, a sound face on its edge 0-1, a face with a corner repeated
Sliver ==
  WithAttributes([k \in 1..4 |-> LinePoint(k - 1)], FALSE, TRUE,
                 << 0, 1, 2, 0, 1, 3, 1, 1, 3 >>)
\* a triangle whose cross product has squared length 999000^2, below
\* tolerance squared, next to one with squared length 1000000^2, not below
Tiny ==
  WithAttributes(<< << 0, 0, 0 >>, << 1000, 0, 0 >>, << 0, 999, 0 >>,
                    << 0, 1000, 0 >> >>, FALSE, TRUE, << 0, 1, 2, 0, 1, 3 >>)
\* the quad with every corner twice in the position buffer, the second
\* copies used by the faces as well
DoubledQuad ==
  WithAttributes([k \in 1..8 |-> Quad.positions[((k - 1) % 4) + 1]], FALSE,
                 TRUE, << 0, 1, 2, 0, 2, 3, 4, 5, 6, 4, 6, 7 >>)

\* the quad split along either diagonal, the faces in either winding
FlatQuads ==
  { [Quad EXCEPT !.index = index] :
      index \in { << 0, 1, 2, 0, 2, 3 >>, << 0, 2, 1, 0, 3, 2 >>,
                  << 0, 1, 3, 1, 2, 3 >>, << 1, 2, 3, 3, 0, 1 >> } }

AnalysisFixtures == { Fan3, Bowtie, Quad, Sliver, Tiny, DoubledQuad }

AnalysisScenes ==
  Scenes \cup { << g >> : g \in AnalysisFixtures \cup FlatQuads }
         \cup { << g, h >> : g \in AnalysisFixtures, h \in AnalysisFixtures }
         \cup { << Quad, Tiny, Fan3 >> }

AnalysisInit ==
  /\ scene \in AnalysisScenes
  /\ input = scene
  /\ NewRepairer
  /\ graph = FlatGraph(Len(scene))
  /\ removeOptions = NoThresholds
  /\ UnitsIdle

AnalyzeGeometry ==
  Standalone("analyzeGeometry", 0, analyzeGeometry(Repairer))

ValidateManifoldGeometry ==
  Standalone("validateManifoldGeometry", 0, validateManifoldGeometry(Repairer))

AnalysisNext == AnalyzeGeometry \/ ValidateManifoldGeometry

AnalysisSpec == AnalysisInit /\ [][AnalysisNext]_vars

(***************************************************************************)
(* The edge keys on their own: getEdgeKey for two vertex pairs, then       *)
(* decodeEdgeKey for the two keys.  The vertex indices are the small ones  *)
(* and some of a mesh of more than 2^26 vertices.                          *)
(***************************************************************************)
MaxSmallIndex == 3

EdgePairs ==
  ((0..MaxSmallIndex) \X (0..MaxSmallIndex))
    \cup { << 3, 7 >>, << 7, 3 >>,
           << 67108864, 67108866 >>, << 67108866, 67108864 >>,
           << 67108863, 67108867 >>, << 0, 94906265 >>, << 0, 94906269 >>,
           << 94906269, 0 >> }

EdgeKeyInit ==
  /\ edgeKeys \in { [pairs |-> << p, q >>, keys |-> << >>, decoded |-> << >>] :
                       p \in EdgePairs, q \in EdgePairs }
  /\ scene = << >>
  /\ input = scene
  /\ NewRepairer
  /\ graph = FlatGraph(0)
  /\ removeOptions = NoThresholds
  /\ svgExport = NoExport
  /\ obj = NoObj
  /\ sar = NoSar
  /\ sessions = NoSessions

GetEdgeKey ==
  /\ edgeKeys.keys = << >>
  /\ edgeKeys' =
       [edgeKeys EXCEPT
          !.keys = [i \in 1..2 |-> getEdgeKeyDouble(edgeKeys.pairs[i][1],
                                                   edgeKeys.pairs[i][2])]]
  /\ UNCHANGED << scene, meshes, analysisResults, sessionVars, lastOp, ret,
                  lastTolerance, input, graph, removeOptions, svgExport, obj, sar,
                  sessions >>

DecodeEdgeKey ==
  /\ edgeKeys.keys # << >>
  /\ edgeKeys.decoded = << >>
  /\ edgeKeys' =
       [edgeKeys EXCEPT
          !.decoded = [i \in 1..2 |-> decodeEdgeKeyDouble(edgeKeys.keys[i])]]
  /\ UNCHANGED << scene, meshes, analysisResults, sessionVars, lastOp, ret,
                  lastTolerance, input, graph, removeOptions, svgExport, obj, sar,
                  sessions >>

EdgeKeyNext == GetEdgeKey \/ DecodeEdgeKey

EdgeKeySpec == EdgeKeyInit /\ [][EdgeKeyNext]_vars

(***************************************************************************)
(* exportSceneToSvg of App.svelte, in the pieces between its awaits.  The  *)
(* scene is the copy of the model that the call repairs, with a repairer   *)
(* of its own.  generateSVG is the renderer of three-svg-renderer, the one *)
(* that needs manifold geometry: it returns a string, an empty one or not, *)
(* or throws.  generateVisibleEdgesSVG always returns a string that starts *)
(* with "<svg" (generate_svg.ts, lines 58-60 and the end of the function). *)
(***************************************************************************)
\* lines 668-670: the options of the repairGeometry call
ExportOptions ==
  [mergeTolerance |-> ExportTolerance, onProgress |-> FALSE,
   skipOperations |-> {}, ensureManifold |-> FALSE]

\* the test of line 673 with totalIssues > 1
PreventsRendererAboveOne(totalStats) == totalStats.totalIssues > 1

\* line 673: totalIssues !== undefined && totalIssues > 0
PreventsRenderer(totalStats) == totalStats.totalIssues > 0

\* lines 696-712: the catch block, up to the await of the fallback
Caught(export, error) ==
  [export EXCEPT !.stage = "fallback", !.caught = error,
                 !.generateVisibleEdgesSVG = @ + 1]

\* lines 714-725, svg given
Finished(export, svg) ==
  IF svg = ""
  THEN [export EXCEPT !.stage = "thrown", !.svg = svg,
                      !.thrown = "Failed to generate SVG with both renderers"]
  ELSE [export EXCEPT !.stage = "done", !.svg = svg,
                      !.downloaded = << svg, "scene.svg" >>,
                      !.gizmoVisible = TRUE]

ExportInit ==
  /\ scene \in Scenes
  /\ input = scene
  /\ NewRepairer
  /\ graph = FlatGraph(Len(scene))
  /\ removeOptions = NoThresholds
  /\ edgeKeys = NoKeys
  /\ svgExport = NoExport
  /\ obj = NoObj
  /\ sar = NoSar
  /\ sessions = NoSessions

\* lines 657-670: up to the first await inside repairGeometry; without a
\* container or a model the call returns at once
ExportSceneToSvg ==
  /\ svgExport.stage = "idle"
  /\ pc = "idle"
  /\ \/ /\ svgExport' = [svgExport EXCEPT !.stage = "returned"]
        /\ UNCHANGED << scene, meshes, analysisResults, sessionVars, lastOp >>
     \/ /\ svgExport' = [svgExport EXCEPT !.stage = "repairing",
                                           !.gizmoVisible = FALSE]
        /\ opts' = ExportOptions
        /\ Suspend(RunToAwait(extractMeshes(Repairer), ExportOptions, 0))
        /\ lastOp' = "repairGeometry"
        /\ UNCHANGED << results, progress >>
  /\ UNCHANGED << ret, lastTolerance, input, graph, removeOptions, edgeKeys,
                  obj, sar,
                  sessions >>

\* lines 672-694: repairGeometry has returned; the throw of line 674 lands
\* in the catch block, else the renderer is set up and generateSVG awaited
AfterRepair ==
  /\ svgExport.stage = "repairing"
  /\ pc = "done"
  /\ svgExport' =
       IF PreventsRenderer(finalAnalysis.totalStats)
       THEN Caught(svgExport,
              "Model has issues preventing SVG export using 'three-svg-renderer'")
       ELSE [svgExport EXCEPT !.stage = "rendering", !.generateSVG = @ + 1]
  /\ UNCHANGED << scene, meshes, analysisResults, sessionVars, lastOp, ret,
                  lastTolerance, input, graph, removeOptions, edgeKeys,
                  obj, sar,
                  sessions >>

\* line 695 and on: generateSVG has settled
RendererSettles ==
  /\ svgExport.stage = "rendering"
  /\ \/ svgExport' = Caught(svgExport, "generateSVG")
     \/ \E svg \in { "", "<svg three-svg-renderer>" } :
          svgExport' = Finished(svgExport, svg)
  /\ UNCHANGED << scene, meshes, analysisResults, sessionVars, lastOp, ret,
                  lastTolerance, input, graph, removeOptions, edgeKeys,
                  obj, sar,
                  sessions >>

\* lines 700-725: generateVisibleEdgesSVG has returned
FallbackReturns ==
  /\ svgExport.stage = "fallback"
  /\ svgExport' = Finished(svgExport, "<svg visible edges>")
  /\ UNCHANGED << scene, meshes, analysisResults, sessionVars, lastOp, ret,
                  lastTolerance, input, graph, removeOptions, edgeKeys,
                  obj, sar,
                  sessions >>

ExportNext ==
  \/ ExportSceneToSvg
  \/ Resume
  \/ AfterRepair
  \/ RendererSettles
  \/ FallbackReturns

ExportSpec == ExportInit /\ [][ExportNext]_vars

(***************************************************************************)
(* ObjGeometryRepairer: parseObjFiles and meshDataToObj.  A text is a      *)
(* sequence of characters, each a string of length 1.  A line of an OBJ    *)
(* text is given as line.trim().split(/\s+/) leaves it: head is parts[0],  *)
(* args are parts[1], parts[2], ...; an argument of an f line is given as  *)
(* its split("/") leaves it, a sequence of texts.  A number is             *)
(* [nan, val]; the coordinates are counted in units of 1 / Scale, the      *)
(* indices in units of 1.                                                  *)
(***************************************************************************)
Scale == 100

DigitChars == << "0", "1", "2", "3", "4", "5", "6", "7", "8", "9" >>
DigitValue(c) == CHOOSE d \in 0..9 : DigitChars[d + 1] = c
IsDigits(t) == t # << >> /\ \A i \in 1..Len(t) : t[i] \in Range(DigitChars)

RECURSIVE DigitsValue(_)
DigitsValue(t) ==
  IF t = << >> THEN 0
  ELSE 10 * DigitsValue(SubSeq(t, 1, Len(t) - 1)) + DigitValue(t[Len(t)])

RECURSIVE NatToString(_)
NatToString(n) ==
  IF n < 10 THEN << DigitChars[n + 1] >>
  ELSE Append(NatToString(n \div 10), DigitChars[(n % 10) + 1])

NaN == [nan |-> TRUE, val |-> 0]
Number(v) == [nan |-> FALSE, val |-> v]
Plus(x, k) == IF x.nan THEN NaN ELSE Number(x.val + k)

\* what parts[k] is when parts is too short
Undefined == << "undefined" >>
Part(parts, k) == IF k <= Len(parts) THEN parts[k] ELSE Undefined

\* parseInt(text, 10) of digits, of "" and of undefined
parseInt(text) == IF IsDigits(text) THEN Number(DigitsValue(text)) ELSE NaN

\* parseFloat of [-]digits[.digits] with at most 2 digits after the point,
\* and of undefined
DotAt(t) ==
  IF \E i \in 1..Len(t) : t[i] = "." THEN CHOOSE i \in 1..Len(t) : t[i] = "."
  ELSE Len(t) + 1
Unsigned(t) == IF t # << >> /\ t[1] = "-" THEN Tail(t) ELSE t
WholePart(t) == SubSeq(Unsigned(t), 1, DotAt(Unsigned(t)) - 1)
Fraction(t) == SubSeq(Unsigned(t), DotAt(Unsigned(t)) + 1, Len(Unsigned(t)))
parseFloat(text) ==
  IF ~IsDigits(WholePart(text)) \/ ~IsDigits(Fraction(text) \o << "0" >>)
  THEN NaN
  ELSE Number((IF text[1] = "-" THEN -1 ELSE 1)
                * (DigitsValue(WholePart(text)) * Scale
                     + DigitsValue(SubSeq(Fraction(text) \o << "0", "0" >>,
                                          1, 2))))

\* `${x}` for a coordinate: no point for a whole number, no zero at the end
NumberToString(x) ==
  IF x.nan THEN << "N", "a", "N" >>
  ELSE (IF x.val < 0 THEN << "-" >> ELSE << >>)
         \o NatToString(Abs(x.val) \div Scale)
         \o (IF Abs(x.val) % Scale = 0 THEN << >>
             ELSE IF Abs(x.val) % 10 = 0
             THEN << ".", DigitChars[(Abs(x.val) % Scale) \div 10 + 1] >>
             ELSE << ".", DigitChars[(Abs(x.val) % Scale) \div 10 + 1],
                     DigitChars[(Abs(x.val) % 10) + 1] >>)

\* (v + 1).toString() for an index
IndexToString(x) ==
  IF x.nan THEN << "N", "a", "N" >>
  ELSE (IF x.val < 0 THEN << "-" >> ELSE << >>) \o NatToString(Abs(x.val))

\* lines 81-86, for the arguments 1 .. i of an f line: the faceUvs
RECURSIVE FaceUvs(_, _, _)
FaceUvs(refs, uvs, i) ==
  IF i = 0 THEN << >>
  ELSE FaceUvs(refs, uvs, i - 1)
         \o (IF /\ Len(refs[i]) > 1
                /\ refs[i][2] # << >>
                /\ ~parseInt(refs[i][2]).nan
                /\ parseInt(refs[i][2]).val - 1 \in 0..(Len(uvs) - 1)
             THEN << uvs[parseInt(refs[i][2]).val] >>
             ELSE << >>)

\* lines 72-94: the faces pushed for an f line.  A face is pushed for every
\* argument from the third on; all of them hold the one array faceVertices
\* and, those that hold one, the one array faceUvs, as they are in the end
FacesOfLine(refs, uvs) ==
  [k \in 1..(IF Len(refs) >= 3 THEN Len(refs) - 2 ELSE 0) |->
     [vertices |-> [i \in 1..Len(refs) |-> Plus(parseInt(Part(refs[i], 2)), -1)],
      uv |-> IF Len(FaceUvs(refs, uvs, k + 2)) > 0
             THEN Some(FaceUvs(refs, uvs, Len(refs)))
             ELSE Null]]

\* lines 55-95: one turn of the loop over the lines
ParseLine(acc, line) ==
  CASE line.head = "v" ->
         [acc EXCEPT !.vertices =
            Append(@, [i \in 1..3 |-> parseFloat(Part(line.args, i))])]
    [] line.head = "vn" ->
         [acc EXCEPT !.normals =
            Append(@, [i \in 1..3 |-> parseFloat(Part(line.args, i))])]
    [] line.head = "vt" ->
         [acc EXCEPT !.uvs =
            Append(@, [i \in 1..2 |-> parseFloat(Part(line.args, i))])]
    [] line.head = "f" ->
         [acc EXCEPT !.faces = @ \o FacesOfLine(line.args, acc.uvs)]
    [] OTHER -> acc

RECURSIVE ParseLines(_, _, _)
ParseLines(acc, lines, i) ==
  IF i > Len(lines) THEN acc
  ELSE ParseLines(ParseLine(acc, lines[i]), lines, i + 1)

\* lines 98-105
OneMeshData(acc) ==
  << [vertices |-> acc.vertices, faces |-> acc.faces,
      normals |-> IF Len(acc.normals) > 0 THEN Some(acc.normals) ELSE Null,
      uvs |-> IF Len(acc.uvs) > 0 THEN Some(acc.uvs) ELSE Null] >>

parseObjFiles(lines) ==
  OneMeshData(ParseLines([vertices |-> << >>, normals |-> << >>,
                          uvs |-> << >>, faces |-> << >>], lines, 1))

\* meshDataToObj, lines 361-386: the lines that are joined
meshDataToObj(meshData) ==
  [i \in 1..Len(meshData.vertices) |->
     [head |-> "v",
      args |-> [k \in 1..3 |-> NumberToString(meshData.vertices[i][k])]]]
  \o [i \in 1..Len(meshData.normals.arr) |->
        [head |-> "vn",
         args |-> [k \in 1..3 |-> NumberToString(meshData.normals.arr[i][k])]]]
  \o [i \in 1..Len(meshData.uvs.arr) |->
        [head |-> "vt",
         args |-> [k \in 1..2 |-> NumberToString(meshData.uvs.arr[i][k])]]]
  \o [i \in 1..Len(meshData.faces) |->
        [head |-> "f",
         args |-> [k \in 1..Len(meshData.faces[i].vertices) |->
                     << IndexToString(Plus(meshData.faces[i].vertices[k], 1)) >>]]]

\* the OBJ texts: up to MaxObjVerts v lines, with a vt and a vn line for
\* each or with none, up to MaxObjFaces f lines of three or four arguments
\* in one of the forms v, v/vt, v/vt/vn, v//vn
MaxObjVerts == 3
MaxObjFaces == 2

CoordTexts ==
  << << "0" >>, << "1" >>, << "1", ".", "5" >>, << "-", "2" >>,
     << "0", ".", "2", "5" >>, << "2", ".", "5", "0" >>, << "1", ".", "0" >> >>

VLine(head, k) ==
  [head |-> head,
   args |-> << CoordTexts[k], CoordTexts[k + 2], CoordTexts[k + 4] >>]
VtLine(k) == [head |-> "vt", args |-> << CoordTexts[k], CoordTexts[k + 1] >>]

\* the reference to vertex v of n in a form; the vt index is n + 1 - v
Ref(form, v, n) ==
  CASE form = "v" -> << NatToString(v) >>
    [] form = "v/vt" -> << NatToString(v), NatToString(n + 1 - v) >>
    [] form = "v/vt/vn" ->
         << NatToString(v), NatToString(n + 1 - v), NatToString(v) >>
    [] form = "v//vn" -> << NatToString(v), << >>, NatToString(v) >>

FaceCorners(n) ==
  { t \in { << 1, 2, 1 >>, << 1, 2, 3 >>, << 3, 2, 1 >>, << 2, 3, 1 >>,
            << 1, 2, 3, 2 >> } : \A i \in 1..Len(t) : t[i] <= n }

FLines(n) ==
  { [head |-> "f", args |-> [i \in 1..Len(t) |-> Ref(form, t[i], n)]] :
      t \in FaceCorners(n), form \in { "v", "v/vt", "v/vt/vn", "v//vn" } }

ObjTexts ==
  UNION { { (IF comment THEN << [head |-> "#", args |-> << >>] >> ELSE << >>)
              \o [k \in 1..n |-> VLine("v", k)]
              \o (IF attrs THEN [k \in 1..n |-> VtLine(k)] ELSE << >>)
              \o (IF attrs THEN [k \in 1..n |-> VLine("vn", k)] ELSE << >>)
              \o faces :
            comment \in BOOLEAN, attrs \in BOOLEAN,
            faces \in UNION { [1..m -> FLines(n)] : m \in 0..MaxObjFaces } } :
          n \in 1..MaxObjVerts }

ObjInit ==
  /\ obj \in { [NoObj EXCEPT !.text = t, !.stage = "text"] : t \in ObjTexts }
  /\ scene = << >>
  /\ input = scene
  /\ NewRepairer
  /\ graph = FlatGraph(0)
  /\ removeOptions = NoThresholds
  /\ edgeKeys = NoKeys
  /\ svgExport = NoExport
  /\ sar = NoSar
  /\ sessions = NoSessions

ParseObjFiles ==
  /\ obj.stage = "text"
  /\ obj' = [obj EXCEPT !.meshData = parseObjFiles(obj.text),
                        !.stage = "parsed"]
  /\ UNCHANGED << scene, meshes, analysisResults, sessionVars, lastOp, ret,
                  lastTolerance, input, graph, removeOptions, edgeKeys,
                  svgExport, sar,
                  sessions >>

MeshDataToObj ==
  /\ obj.stage = "parsed"
  /\ obj' = [obj EXCEPT !.written = meshDataToObj(obj.meshData[1]),
                        !.stage = "written"]
  /\ UNCHANGED << scene, meshes, analysisResults, sessionVars, lastOp, ret,
                  lastTolerance, input, graph, removeOptions, edgeKeys,
                  svgExport, sar,
                  sessions >>

ObjNext == ParseObjFiles \/ MeshDataToObj

ObjSpec == ObjInit /\ [][ObjNext]_vars

(***************************************************************************)
(* ObjGeometryRepairer.repairMeshData on a MeshData the caller made: the   *)
(* vertices are <<x, y, z>> in coordinate units as in a geometry, every    *)
(* face has a vertices array of its own, the repairer was made with the    *)
(* default tolerance (one unit).  A map of the code is a function; its     *)
(* keys are the domain.                                                    *)
(***************************************************************************)
MapPut(map, key, value) ==
  [k \in DOMAIN map \cup { key } |-> IF k = key THEN value ELSE map[k]]

\* the entries of s, in order, whose place is not in drop
RECURSIVE WithoutAt(_, _, _)
WithoutAt(s, drop, i) ==
  IF i > Len(s) THEN << >>
  ELSE (IF i \in drop THEN << >> ELSE << s[i] >>) \o WithoutAt(s, drop, i + 1)

\* face.vertices[i] = indexRemap.get(face.vertices[i]) ?? face.vertices[i]
RemapFaces(faces, indexRemap) ==
  [f \in 1..Len(faces) |->
     [vertices |->
        [j \in 1..Len(faces[f].vertices) |->
           IF faces[f].vertices[j] \in DOMAIN indexRemap
           THEN indexRemap[faces[f].vertices[j]]
           ELSE faces[f].vertices[j]],
      uv |-> faces[f].uv]]

\* lines 167-181: the loop of mergeVertices from vertex i on
RECURSIVE ObjMergeFrom(_, _, _, _)
ObjMergeFrom(vertices, tolerance, i, acc) ==
  IF i >= Len(vertices) THEN acc
  ELSE LET key == MergeKey(vertices[i + 1], tolerance)
       IN  ObjMergeFrom(vertices, tolerance, i + 1,
             IF key \in DOMAIN acc.vertexMap
             THEN [acc EXCEPT
                     !.indexRemap = MapPut(@, i, acc.vertexMap[key]),
                     !.mergedCount = @ + 1]
             ELSE [acc EXCEPT
                     !.vertexMap = MapPut(@, key, Len(acc.newVertices)),
                     !.indexRemap = MapPut(@, i, Len(acc.newVertices)),
                     !.newVertices = Append(@, vertices[i + 1])])

\* mergeVertices, lines 161-190
ObjMergeVertices(meshData, tolerance) ==
  LET acc == ObjMergeFrom(meshData.vertices, tolerance, 0,
               [vertexMap |-> << >>, newVertices |-> << >>,
                indexRemap |-> << >>, mergedCount |-> 0])
  IN  [meshData |-> [meshData EXCEPT
                       !.faces = RemapFaces(@, acc.indexRemap),
                       !.vertices = acc.newVertices],
       count |-> acc.mergedCount]

\* isDegenerateFace, lines 208-229: lengthSq < tolerance * tolerance
ObjIsDegenerateFace(face, vertices) ==
  \/ Len(face.vertices) < 3
  \/ Cardinality(Range(face.vertices)) < 3
  \/ LengthSqBelowTolerance(Cross(vertices[face.vertices[1] + 1],
                                  vertices[face.vertices[2] + 1],
                                  vertices[face.vertices[3] + 1]))

\* removeDegenerateFaces, lines 192-206
ObjRemoveDegenerateFaces(meshData) ==
  LET degenerate == { f \in 1..Len(meshData.faces) :
                        ObjIsDegenerateFace(meshData.faces[f],
                                            meshData.vertices) }
  IN  [meshData |-> [meshData EXCEPT !.faces = WithoutAt(@, degenerate, 1)],
       count |-> Cardinality(degenerate)]

\* the edge keys of a face, one for each corner and the next (lines 238-241)
ObjEdgeKeys(face) ==
  [i \in 1..Len(face.vertices) |->
     EdgeKeyString(face.vertices[i],
                   face.vertices[(i % Len(face.vertices)) + 1])]

\* edgeCount.get(edgeKey) || 0 after the loop of lines 235-246
ObjEdgeCount(faces, edgeKey) ==
  SumSeq([f \in 1..Len(faces) |->
            Cardinality({ i \in 1..Len(faces[f].vertices) :
                            ObjEdgeKeys(faces[f])[i] = edgeKey })])

\* fixNonManifoldEdges, lines 231-274: every face with an edge counted more
\* than twice is removed
ObjFixNonManifoldEdges(meshData) ==
  LET facesToRemove ==
        { f \in 1..Len(meshData.faces) :
            \E i \in 1..Len(meshData.faces[f].vertices) :
              ObjEdgeCount(meshData.faces,
                           ObjEdgeKeys(meshData.faces[f])[i]) > 2 }
  IN  [meshData |-> [meshData EXCEPT !.faces = WithoutAt(@, facesToRemove, 1)],
       count |-> Cardinality(facesToRemove)]

\* lines 289-296: the loop of removeLooseVertices from vertex i on
RECURSIVE ObjLooseFrom(_, _, _, _)
ObjLooseFrom(vertices, usedVertices, i, acc) ==
  IF i >= Len(vertices) THEN acc
  ELSE ObjLooseFrom(vertices, usedVertices, i + 1,
         IF i \in usedVertices
         THEN [acc EXCEPT
                 !.indexRemap = MapPut(@, i, Len(acc.newVertices)),
                 !.newVertices = Append(@, vertices[i + 1])]
         ELSE [acc EXCEPT !.removedCount = @ + 1])

\* removeLooseVertices, lines 276-306
ObjRemoveLooseVertices(meshData) ==
  LET usedVertices ==
        UNION { Range(meshData.faces[f].vertices) :
                  f \in 1..Len(meshData.faces) }
      acc == ObjLooseFrom(meshData.vertices, usedVertices, 0,
               [newVertices |-> << >>, indexRemap |-> << >>,
                removedCount |-> 0])
  IN  [meshData |-> [meshData EXCEPT
                       !.faces = RemapFaces(@, acc.indexRemap),
                       !.vertices = acc.newVertices],
       count |-> acc.removedCount]

(***************************************************************************)
(* recalculateNormals.  A normal is [sum, unit]: the vector sum when unit   *)
(* is FALSE, sum / |sum| when unit is TRUE.  The faces of the inputs lie   *)
(* in planes x, y or z = constant, so the unit normal of a face is a       *)
(* vector along an axis (or the zero vector of a face without area, whose  *)
(* length is not > 0) and the sums are exact.  vertexNormals is an array   *)
(* of references to objects: refs[i] is the object entry i - 1 refers to,  *)
(* cells are the objects.                                                  *)
(***************************************************************************)
Zero == << 0, 0, 0 >>
Sign(x) == IF x > 0 THEN 1 ELSE IF x < 0 THEN -1 ELSE 0

\* lines 325-337: normal / length, for a normal along an axis
UnitNormal(normal) ==
  CHOOSE n \in { << Sign(normal[1]), 0, 0 >>, << 0, Sign(normal[2]), 0 >>,
                 << 0, 0, Sign(normal[3]) >> } :
    \A k \in 1..3 : Sign(normal[k]) = n[k]

\* lines 309-313: new Array(length).fill(object), one object for all entries
Filled(length) ==
  [refs |-> [i \in 1..length |-> 1],
   cells |-> << [sum |-> Zero, unit |-> FALSE] >>]

\* lines 339-343, from entry j of face.vertices on
RECURSIVE AddToVertices(_, _, _, _)
AddToVertices(vertexNormals, vertices, normal, j) ==
  IF j > Len(vertices) THEN vertexNormals
  ELSE AddToVertices(
         [vertexNormals EXCEPT
            !.cells[vertexNormals.refs[vertices[j] + 1]].sum =
               << @[1] + normal[1], @[2] + normal[2], @[3] + normal[3] >>],
         vertices, normal, j + 1)

\* lines 315-344, from face f on
RECURSIVE AccumulateFrom(_, _, _)
AccumulateFrom(meshData, vertexNormals, f) ==
  IF f > Len(meshData.faces) THEN vertexNormals
  ELSE AccumulateFrom(meshData,
         IF Len(meshData.faces[f].vertices) < 3 THEN vertexNormals
         ELSE AddToVertices(vertexNormals, meshData.faces[f].vertices,
                UnitNormal(Cross(
                  meshData.vertices[meshData.faces[f].vertices[1] + 1],
                  meshData.vertices[meshData.faces[f].vertices[2] + 1],
                  meshData.vertices[meshData.faces[f].vertices[3] + 1])),
                1),
         f + 1)

\* lines 345-354, from entry i on: an object whose length is > 0 is divided
\* by it
RECURSIVE NormalizeFrom(_, _)
NormalizeFrom(vertexNormals, i) ==
  IF i > Len(vertexNormals.refs) THEN vertexNormals
  ELSE NormalizeFrom(
         [vertexNormals EXCEPT
            !.cells[vertexNormals.refs[i]].unit =
               @ \/ vertexNormals.cells[vertexNormals.refs[i]].sum # Zero],
         i + 1)

\* recalculateNormals, lines 308-359
ObjRecalculateNormals(meshData) ==
  LET vertexNormals ==
        NormalizeFrom(
          AccumulateFrom(meshData, Filled(Len(meshData.vertices)), 1), 1)
  IN  [meshData EXCEPT
         !.normals = Some([i \in 1..Len(vertexNormals.refs) |->
                             vertexNormals.cells[vertexNormals.refs[i]]])]

\* the results of repairMeshData, all 0 (lines 120-127)
NoResults ==
  [mergedVertices |-> 0, removedLooseVertices |-> 0,
   removedDegenerateFaces |-> 0, fixedNonManifoldEdges |-> 0,
   totalIssuesFound |-> 0, totalIssuesFixed |-> 0]

\* a step of repairMeshData that is taken or left out: r is [meshData, count]
Taken(taken, meshData, r) ==
  IF taken THEN r ELSE [meshData |-> meshData, count |-> 0]

\* lines 132-158, from the merged MeshData on
AfterMerge(options, merged) ==
  LET sound == Taken(options.removeDegenerateFaces, merged.meshData,
                     ObjRemoveDegenerateFaces(merged.meshData))
      fixed == Taken(options.fixNonManifoldEdges, sound.meshData,
                     ObjFixNonManifoldEdges(sound.meshData))
      used == Taken(options.removeLooseVertices, fixed.meshData,
                    ObjRemoveLooseVertices(fixed.meshData))
  IN  [meshData |-> ObjRecalculateNormals(used.meshData),
       results |->
         [mergedVertices |-> merged.count,
          removedLooseVertices |-> used.count,
          removedDegenerateFaces |-> sound.count,
          fixedNonManifoldEdges |-> fixed.count,
          totalIssuesFound |-> merged.count + sound.count + fixed.count
                                 + used.count,
          totalIssuesFixed |-> merged.count + sound.count + fixed.count
                                 + used.count],
       progress |->
         IF options.onProgress
         THEN << 10 >>
                \o (IF options.removeDegenerateFaces THEN << 30 >> ELSE << >>)
                \o (IF options.fixNonManifoldEdges THEN << 50 >> ELSE << >>)
                \o (IF options.removeLooseVertices THEN << 70 >> ELSE << >>)
                \o << 90, 100 >>
         ELSE << >>]

\* repairMeshData, lines 108-159
repairMeshData(meshData, options) ==
  AfterMerge(options, ObjMergeVertices(meshData, options.mergeTolerance))

\* the options of a repairMeshData call
MeshDataOptions ==
  [mergeTolerance : { DefaultTolerance, ExportTolerance },
   removeLooseVertices : BOOLEAN, removeDegenerateFaces : BOOLEAN,
   fixNonManifoldEdges : BOOLEAN, onProgress : BOOLEAN]

\* the inputs: the corners of the cube, with or without a ninth vertex at
\* corner 0, and up to MaxMeshFaces faces that lie in faces of the cube
MaxMeshFaces == 3

MeshFaceChoices(n) ==
  { t \in { << 0, 1, 3 >>, << 0, 3, 2 >>, << 0, 1, 2 >>, << 0, 1, 5 >>,
            << 1, 0, 3 >>, << 4, 5, 7 >>, << 0, 0, 1 >>, << 8, 1, 3 >> } :
      \A j \in 1..3 : t[j] < n }

MeshVertexLists ==
  { [k \in 1..8 |-> CubeCorner(k - 1)],
    [k \in 1..9 |-> CubeCorner((k - 1) % 8)] }

MeshInputs ==
  UNION { { [vertices |-> vertices, faces |-> faces] :
              faces \in UNION { [1..m -> MeshFaceChoices(Len(vertices))] :
                                  m \in 0..MaxMeshFaces } } :
          vertices \in MeshVertexLists }

\* the MeshData and the indexed geometry of one vertex list and face list
MeshDataOf(in) ==
  [vertices |-> in.vertices,
   faces |-> [f \in 1..Len(in.faces) |->
                [vertices |-> in.faces[f], uv |-> Null]],
   normals |-> Null, uvs |-> Null]

GeometryOf(in) ==
  WithAttributes(in.vertices, FALSE, TRUE, Flatten(in.faces))

MeshDataInit ==
  /\ \E in \in MeshInputs :
       /\ scene = << GeometryOf(in) >>
       /\ obj = [NoObj EXCEPT !.meshData = << MeshDataOf(in) >>,
                              !.stage = "meshData"]
  /\ input = scene
  /\ NewRepairer
  /\ graph = FlatGraph(Len(scene))
  /\ removeOptions = NoThresholds
  /\ edgeKeys = NoKeys
  /\ svgExport = NoExport
  /\ sar = NoSar
  /\ sessions = NoSessions

\* obj after a repairMeshData call that made r of its MeshData
Repaired(o, options, r) ==
  [o EXCEPT !.meshData = << r.meshData >>, !.results = r.results,
            !.progress = r.progress, !.options = options,
            !.stage = "repaired"]

RepairMeshData ==
  /\ obj.stage = "meshData"
  /\ \E options \in MeshDataOptions :
       obj' = Repaired(obj, options, repairMeshData(obj.meshData[1], options))
  /\ UNCHANGED << scene, meshes, analysisResults, sessionVars, lastOp, ret,
                  lastTolerance, input, graph, removeOptions, edgeKeys,
                  svgExport, sar,
                  sessions >>

MeshDataNext == RepairMeshData \/ FixNonManifoldEdges

MeshDataSpec == MeshDataInit /\ [][MeshDataNext]_vars

(***************************************************************************)
(* SARSimulation.  aperturePath is config.aperturePath, a position being   *)
(* named by the path it is of and the fraction t it was made with;         *)
(* captures counts the calls of sensor.captureRadarReturn; radarReturns    *)
(* are those of the processor, each named by the position it was captured  *)
(* at; stage, error, image and progress tell of the last simulateSAR call: *)
(* "processing" while it awaits processSARImage, "resolved" with an image, *)
(* "rejected" with an error.  A fraction is << numerator, denominator >>.  *)
(* One simulateSAR call is made at a time.                                 *)
(***************************************************************************)
MaxSamples == 2
MaxCaptures == 4

\* simulateSAR without the test of lines 382-384
simulateSARWithoutTest(sim, onProgress) ==
  [sim EXCEPT
     !.stage = "processing",
     !.captures = @ + Len(sim.aperturePath),
     !.radarReturns = @ \o sim.aperturePath,
     !.onProgress = onProgress,
     !.progress = IF onProgress
                  THEN [i \in 1..Len(sim.aperturePath) |->
                          << i * 8, Len(sim.aperturePath) * 10 >>]
                         \o << << 9, 10 >> >>
                  ELSE << >>,
     !.error = "none",
     !.image = "none"]

\* simulateSAR, lines 377-401, up to the await of processSARImage
simulateSAR(sim, onProgress) ==
  IF Len(sim.aperturePath) = 0
  THEN [sim EXCEPT !.stage = "rejected", !.onProgress = onProgress,
                   !.progress = << >>, !.error = "Aperture path is empty",
                   !.image = "none"]
  ELSE [sim EXCEPT
          !.stage = "processing",
          !.captures = @ + Len(sim.aperturePath),
          !.radarReturns = @ \o sim.aperturePath,
          !.onProgress = onProgress,
          !.progress = IF onProgress
                       THEN [i \in 1..Len(sim.aperturePath) |->
                               << i * 8, Len(sim.aperturePath) * 10 >>]
                              \o << << 9, 10 >> >>
                       ELSE << >>,
          !.error = "none",
          !.image = "none"]

\* lines 343-356: t = i / (samples - 1)
LinearPath(samples) ==
  [k \in 1..samples |-> [path |-> "linear", t |-> << k - 1, samples - 1 >>]]
\* lines 358-375: angle = (i / samples) * 2 pi
CircularPath(samples) ==
  [k \in 1..samples |-> [path |-> "circular", t |-> << k - 1, samples >>]]
\* an array of positions the caller made
GivenPath(samples) ==
  [k \in 1..samples |-> [path |-> "given", t |-> << k - 1, 1 >>]]

\* a new processor for the path: lines 355, 374, 409
WithPath(sim, path) ==
  [sim EXCEPT !.aperturePath = path, !.radarReturns = << >>]

SarInit ==
  /\ sar \in { [NoSar EXCEPT !.stage = "new", !.aperturePath = path] :
                 path \in { << >>, GivenPath(MaxSamples) } }
  /\ scene = << >>
  /\ input = scene
  /\ NewRepairer
  /\ graph = FlatGraph(0)
  /\ removeOptions = NoThresholds
  /\ edgeKeys = NoKeys
  /\ svgExport = NoExport
  /\ obj = NoObj
  /\ sessions = NoSessions

SarUnchanged ==
  UNCHANGED << scene, meshes, analysisResults, sessionVars, lastOp, ret,
               lastTolerance, input, graph, removeOptions, edgeKeys,
               svgExport, obj, sessions >>

SetLinearAperturePath ==
  /\ sar.stage # "processing"
  /\ \E samples \in 0..MaxSamples : sar' = WithPath(sar, LinearPath(samples))
  /\ SarUnchanged

SetCircularAperturePath ==
  /\ sar.stage # "processing"
  /\ \E samples \in 0..MaxSamples : sar' = WithPath(sar, CircularPath(samples))
  /\ SarUnchanged

\* updateConfig, lines 406-410, with an aperturePath or without
UpdateConfig ==
  /\ sar.stage # "processing"
  /\ \E path \in { sar.aperturePath, << >>, GivenPath(MaxSamples) } :
       sar' = WithPath(sar, path)
  /\ SarUnchanged

\* the caller empties the array it gave as aperturePath, which the config
\* holds by reference
CallerEmptiesPath ==
  /\ sar.stage # "processing"
  /\ sar.aperturePath = GivenPath(MaxSamples)
  /\ sar' = [sar EXCEPT !.aperturePath = << >>]
  /\ SarUnchanged

SimulateSAR ==
  /\ sar.stage # "processing"
  /\ sar.captures + Len(sar.aperturePath) <= MaxCaptures
  /\ \E onProgress \in BOOLEAN : sar' = simulateSAR(sar, onProgress)
  /\ SarUnchanged

\* processSARImage, lines 150-196, has settled: with the error of line 157;
\* or, a return having no position in config.aperturePath (line 166 reads
\* undefined), with the TypeError of sensorPosition.length() at line 218;
\* or with the image, and then lines 402-404
ProcessSARImageSettles ==
  /\ sar.stage = "processing"
  /\ \/ sar' = [sar EXCEPT !.stage = "rejected",
                           !.error = "Failed to get canvas context"]
     \/ /\ Len(sar.radarReturns) > Len(sar.aperturePath)
        /\ sar' = [sar EXCEPT !.stage = "rejected", !.error = "TypeError"]
     \/ /\ Len(sar.radarReturns) <= Len(sar.aperturePath)
        /\ sar' = [sar EXCEPT !.stage = "resolved", !.image = "ImageData",
                              !.progress = IF sar.onProgress
                                           THEN Append(@, << 10, 10 >>)
                                           ELSE @]
  /\ SarUnchanged

SarNext ==
  \/ SetLinearAperturePath
  \/ SetCircularAperturePath
  \/ UpdateConfig
  \/ CallerEmptiesPath
  \/ SimulateSAR
  \/ ProcessSARImageSettles

SarSpec == SarInit /\ [][SarNext]_vars

(***************************************************************************)
(* Two repairGeometry calls on one repairer, each for an object of its     *)
(* own.  The world is the two objects (each the geometries of its meshes   *)
(* in traversal order), this.meshes and this.analysisResults; the console  *)
(* lines are not kept.  An entry of this.meshes names its mesh by object   *)
(* and place.  A session runs from its call to its first await and from    *)
(* each await to the next; between awaits nothing else runs.  input is    *)
(* the two objects as they were at first.                                  *)
(***************************************************************************)
\* extractMeshes that keeps this.meshes once it has entries
ExtractMeshesOnce(world, s) ==
  IF world.meshes # << >> THEN world
  ELSE [world EXCEPT !.meshes =
          [k \in 1..Len(world.objects[s]) |->
             [object |-> s, mesh |-> k,
              originalGeometry |-> world.objects[s][k]]]]

\* extractMeshes(object3D) for object s: lines 66-81
ExtractMeshesOf(world, s) ==
  [world EXCEPT !.meshes =
     [k \in 1..Len(world.objects[s]) |->
        [object |-> s, mesh |-> k,
         originalGeometry |-> world.objects[s][k]]]]

\* meshData.mesh.geometry for an entry of this.meshes
GeometryAt(world, entry) == world.objects[entry.object][entry.mesh]

\* what a pass makes of one mesh: [geometry, count]
PassForMesh(name, geometry, tolerance) ==
  CASE name = "mergeVertices" -> mergeVerticesForMesh(geometry, tolerance)
    [] name = "removeLooseVertices" -> removeLooseVerticesForMesh(geometry)
    [] name = "fixNonManifoldEdges" -> fixNonManifoldEdgesForMesh(geometry)
    [] name = "removeDegenerateFaces" -> removeDegenerateFacesForMesh(geometry)
    [] name = "recalculateNormals" ->
         [geometry |-> computeVertexNormals(geometry), count |-> 1]

\* this.meshes.forEach of a pass: every mesh this.meshes names gets what the
\* pass makes of it; ret is the total
ForEachMesh(world, name, tolerance) ==
  [world |->
     [world EXCEPT !.objects =
        [s \in 1..Len(world.objects) |->
           [k \in 1..Len(world.objects[s]) |->
              IF \E e \in 1..Len(world.meshes) :
                   world.meshes[e].object = s /\ world.meshes[e].mesh = k
              THEN PassForMesh(name, world.objects[s][k], tolerance).geometry
              ELSE world.objects[s][k]]]],
   ret |-> SumSeq([e \in 1..Len(world.meshes) |->
                     PassForMesh(name, GeometryAt(world, world.meshes[e]),
                                 tolerance).count])]

\* a public pass called for object s
PassOn(world, s, name, tolerance) ==
  ForEachMesh(ExtractMeshesOf(world, s), name, tolerance)

\* lines 108-150 for the meshes this.meshes names
AnalyzedMeshes(world, meshAnalysis) ==
  [world |-> [world EXCEPT !.analysisResults = meshAnalysis],
   ret |-> [totalStats |-> TotalStats(meshAnalysis),
            meshAnalysis |-> meshAnalysis]]

\* analyzeGeometry(object3D) for object s
AnalyzeGeometryOf(world, s) ==
  AnalyzedMeshes(ExtractMeshesOf(world, s),
    [e \in 1..Len(ExtractMeshesOf(world, s).meshes) |->
       analyzeSingleMesh(GeometryAt(world, ExtractMeshesOf(world, s).meshes[e]))])

\* performIterativeRepair(object3D, tolerance) for object s, lines 765-791
RECURSIVE IterativeRepairOf(_, _, _, _, _)
AfterAnalysisOf(an, s, tolerance, iteration, totalIterations) ==
  IF ~(\/ an.ret.totalStats.nonManifoldEdges > 0
       \/ an.ret.totalStats.nonManifoldVertices > 0
       \/ an.ret.totalStats.degenerateFaces > 0)
  THEN [world |-> an.world, ret |-> totalIterations]
  ELSE IterativeRepairOf(
         PassOn(PassOn(PassOn(an.world, s, "removeDegenerateFaces",
                              tolerance).world,
                       s, "mergeVertices", tolerance).world,
                s, "fixNonManifoldEdges", tolerance).world,
         s, tolerance, iteration + 1, totalIterations + 1)

IterativeRepairOf(world, s, tolerance, iteration, totalIterations) ==
  IF iteration >= maxIterations
  THEN [world |-> world, ret |-> totalIterations]
  ELSE AfterAnalysisOf(AnalyzeGeometryOf(world, s), s, tolerance, iteration,
                       totalIterations)

\* operation.fn() of the session for object s
OperationOn(world, s, name, mergeTolerance) ==
  IF name = "validateAndReRepair"
  THEN IterativeRepairOf(world, s, mergeTolerance, 0, 0)
  ELSE PassOn(world, s, name, mergeTolerance)

\* the for loop of lines 738-753 of the session for object s, from i up to
\* the next await or past the loop to the return
RECURSIVE SessionRunToAwait(_, _, _, _)
SessionRunToAwait(world, s, o, i) ==
  IF i >= Len(Operations(o.ensureManifold))
  THEN [pc |-> "done", world |-> AnalyzeGeometryOf(world, s).world,
        opIndex |-> i, pending |-> 0,
        finalAnalysis |-> AnalyzeGeometryOf(world, s).ret]
  ELSE IF Operations(o.ensureManifold)[i + 1] \in o.skipOperations
  THEN SessionRunToAwait(world, s, o, i + 1)
  ELSE [pc |-> "await",
        world |-> OperationOn(world, s, Operations(o.ensureManifold)[i + 1],
                              o.mergeTolerance).world,
        opIndex |-> i,
        pending |-> OperationOn(world, s, Operations(o.ensureManifold)[i + 1],
                                o.mergeTolerance).ret,
        finalAnalysis |-> NoAnalysis]

\* a call not made yet
NoCall ==
  [pc |-> "idle", opts |-> NoOptions, opIndex |-> 0, pending |-> 0,
   results |-> << >>, progress |-> << >>, finalAnalysis |-> NoAnalysis]

\* the call after a run r of its session
Suspended(call, r) ==
  [call EXCEPT !.pc = r.pc, !.opIndex = r.opIndex, !.pending = r.pending,
               !.finalAnalysis = r.finalAnalysis]

\* lines 748-752 of a suspended call: the result is kept and reported
Resumed(call) ==
  [call EXCEPT
     !.results = MapPut(@, Operations(call.opts.ensureManifold)[call.opIndex + 1],
                        call.pending),
     !.progress = IF call.opts.onProgress
                  THEN Append(@, ProgressCall(call.opIndex,
                                   Operations(call.opts.ensureManifold)))
                  ELSE @]

\* a new repairer and the two objects
NewWorld(objects) ==
  [objects |-> objects, meshes |-> << >>, analysisResults |-> << >>]

SessionScenes ==
  { << Fan3 >>, << Sliver >>, << DoubledQuad >>, << Quad, Bowtie >> }

SessionOptions ==
  { o \in RepairOptions :
      o.onProgress /\ o.skipOperations \in { {}, { "mergeVertices" } } }

SessionsInit ==
  /\ \E a \in SessionScenes, b \in SessionScenes :
       sessions = [world |-> NewWorld(<< a, b >>),
                   call |-> << NoCall, NoCall >>,
                   input |-> << a, b >>, interleaved |-> FALSE]
  /\ scene = << >>
  /\ input = scene
  /\ NewRepairer
  /\ graph = FlatGraph(0)
  /\ removeOptions = NoThresholds
  /\ edgeKeys = NoKeys
  /\ svgExport = NoExport
  /\ obj = NoObj
  /\ sar = NoSar

SessionsUnchanged ==
  UNCHANGED << scene, meshes, analysisResults, sessionVars, lastOp, ret,
               lastTolerance, input, graph, removeOptions, edgeKeys,
               svgExport, obj, sar >>

\* sessions after session s has run to r; interleaved tells that some session
\* has run while the other was suspended at its await
SessionAt(ss, s, call, r) ==
  [ss EXCEPT !.world = r.world, !.call[s] = Suspended(call, r),
             !.interleaved = @ \/ ss.call[3 - s].pc = "await"]

\* repairGeometry(object s, o), up to its first await
StartSession(s) ==
  /\ sessions.call[s].pc = "idle"
  /\ \E o \in SessionOptions :
       sessions' = SessionAt(sessions, s, [NoCall EXCEPT !.opts = o],
                             SessionRunToAwait(sessions.world, s, o, 0))
  /\ SessionsUnchanged

\* the continuation of session s after its await
ResumeSession(s) ==
  /\ sessions.call[s].pc = "await"
  /\ sessions' = SessionAt(sessions, s, Resumed(sessions.call[s]),
                           SessionRunToAwait(sessions.world, s,
                                             sessions.call[s].opts,
                                             sessions.call[s].opIndex + 1))
  /\ SessionsUnchanged

SessionsNext ==
  \/ StartSession(1)
  \/ StartSession(2)
  \/ ResumeSession(1)
  \/ ResumeSession(2)

SessionsSpec == SessionsInit /\ [][SessionsNext]_vars

(***************************************************************************)
(* Properties.  Returned holds when repairGeometry has returned and no     *)
(* other method was called since: the scene is as the call left it.        *)
(***************************************************************************)
HasReturned == pc = "done" /\ lastOp = "repairGeometry"

\* the five defect counts of every mesh as it is now, summed
SceneIssues ==
  SumSeq([m \in 1..Len(scene) |-> MeshIssues(analyzeSingleMesh(scene[m]))])

\* C1, as stated: after repairGeometry has returned, whatever the scene and
\* the options, the finalAnalysis it returned has totalIssues = 0.
C1_NoIssuesLeft ==
  pc = "done" => finalAnalysis.totalStats.totalIssues = 0

\* C1, corrected: the finalAnalysis repairGeometry returned is the analysis
\* of the geometry as the last step left it, its totalIssues is the sum of
\* the five defect counts of that geometry (which may be more than 0), and
\* when the iterative re-repair ran and stopped before its third iteration
\* the report has no non-manifold edge, no non-manifold vertex and no
\* degenerate face.
C1_FinalAnalysisReportsWhatIsLeft ==
  HasReturned =>
    /\ finalAnalysis.meshAnalysis =
         [m \in 1..Len(scene) |-> analyzeSingleMesh(scene[m])]
    /\ finalAnalysis.totalStats.totalIssues = SceneIssues
    /\ ( /\ opts.ensureManifold
         /\ "validateAndReRepair" \notin opts.skipOperations
         /\ results["validateAndReRepair"] < maxIterations )
       => /\ finalAnalysis.totalStats.nonManifoldEdges = 0
          /\ finalAnalysis.totalStats.nonManifoldVertices = 0
          /\ finalAnalysis.totalStats.degenerateFaces = 0

\* C1, reached: repairGeometry has returned with nothing skipped, the
\* re-repair stopped early, and the final report still counts issues.
C1_ReturnedWithIssues ==
  /\ HasReturned
  /\ opts.skipOperations = {}
  /\ opts.ensureManifold
  /\ results["validateAndReRepair"] < maxIterations
  /\ finalAnalysis.totalStats.totalIssues > 0

\* C2, as stated: the cube of 12 independent triangles (36 vertices), given
\* without an index buffer or with the index buffer 0..35, put through the
\* full repairGeometry with the default tolerance, ends with 8 vertices,
\* 12 faces and totalIssues = 0 in the final analysis.
C2_UnweldedCubeConverges ==
  ( /\ pc = "done"
    /\ input \in { << UnweldedCubeIndexed >>, << UnweldedCubeNonIndexed >> }
    /\ opts.mergeTolerance = DefaultTolerance
    /\ opts.skipOperations = {} )
  => /\ finalAnalysis.totalStats.vertices = 8
     /\ finalAnalysis.totalStats.faces3 = 3 * 12
     /\ finalAnalysis.totalStats.totalIssues = 0

\* a geometry whose buffers fit together; original is the geometry the
\* mesh had at first, whose vertices the attribute tags name
WellFormed(geometry, original) ==
  /\ \A v \in 1..Len(geometry.positions) : Len(geometry.positions[v]) = 3
  /\ Len(geometry.index) % 3 = 0
  /\ \A k \in 1..Len(geometry.index) :
       geometry.index[k] \in 0..(Len(geometry.positions) - 1)
  /\ ~geometry.hasIndex => geometry.index = << >>
  /\ IF geometry.hasNormal
     THEN /\ Len(geometry.normals) = Len(geometry.positions)
          /\ \A v \in 1..Len(geometry.normals) :
               \/ geometry.normals[v] = 0
               \/ /\ geometry.normals[v] \in 1..Len(original.positions)
                  /\ original.positions[geometry.normals[v]]
                       = geometry.positions[v]
     ELSE geometry.normals = << >>
  /\ IF geometry.hasUv
     THEN /\ Len(geometry.uvs) = Len(geometry.positions)
          /\ \A v \in 1..Len(geometry.uvs) :
               /\ geometry.uvs[v] \in 1..Len(original.positions)
               /\ original.positions[geometry.uvs[v]] = geometry.positions[v]
     ELSE geometry.uvs = << >>

\* C3: after any sequence of repair passes on geometry that was well-formed
\* at first, every mesh is well-formed: three coordinates per vertex, three
\* index entries per face, every index below the vertex count, and normals
\* and uvs, when present, one per vertex and each the value of an input
\* vertex at that very position (or a recomputed normal).
C3_WellFormedAfterPasses ==
  /\ Len(scene) = Len(input)
  /\ \A m \in 1..Len(scene) : WellFormed(scene[m], input[m])

\* C3, reached: passes called one by one have taken vertices out of an
\* indexed mesh that carries normals and uvs and still has faces.
C3_VerticesRemovedWithAttributes ==
  /\ pc = "idle"
  /\ lastOp \in { "mergeVertices", "removeLooseVertices" }
  /\ ret > 0
  /\ \E m \in 1..Len(scene) :
       /\ scene[m].hasNormal /\ scene[m].hasUv /\ scene[m].hasIndex
       /\ Len(scene[m].index) > 0
       /\ Len(scene[m].positions) < Len(input[m].positions)

\* C4: mergeVertices called twice in a row with the same tolerance returns
\* 0 the second time, and the second call leaves every mesh's positions and
\* index buffer as the first call made them.
C4_MergeTwiceAddsNothing ==
  [][ ( /\ lastOp = "mergeVertices"
        /\ lastOp' = "mergeVertices"
        /\ lastTolerance' = lastTolerance )
      => /\ ret' = 0
         /\ \A m \in 1..Len(scene) :
              /\ scene'[m].positions = scene[m].positions
              /\ scene'[m].hasIndex = scene[m].hasIndex
              /\ scene'[m].index = scene[m].index ]_vars

\* C4, reached: the last call was mergeVertices, it returned 0 and left the
\* mesh as it found it, on a mesh without index buffer that has fewer
\* vertices than at first (only an earlier mergeVertices takes vertices out
\* of such a mesh).
C4_MergedThenNothingToMerge ==
  /\ lastOp = "mergeVertices"
  /\ ret = 0
  /\ \E m \in 1..Len(scene) :
       /\ ~input[m].hasIndex
       /\ meshes[m].originalGeometry = scene[m]
       /\ Len(scene[m].positions) > 0
       /\ Len(scene[m].positions) < Len(input[m].positions)

\* the number of vertices of all meshes of a scene
SceneVertices(s) == SumSeq([m \in 1..Len(s) |-> Len(s[m].positions)])

\* C5: removeLooseVertices conserves vertices: the vertices left plus the
\* count returned are the vertices there were; in an indexed mesh every
\* face index is below the new vertex count and names a vertex at the
\* position the face's corner had before the call.
C5_LooseVerticesConserved ==
  [][ lastOp' = "removeLooseVertices"
      => /\ SceneVertices(scene') + ret' = SceneVertices(scene)
         /\ \A m \in 1..Len(scene) :
              scene[m].hasIndex =>
                /\ Len(scene'[m].index) = Len(scene[m].index)
                /\ \A k \in 1..Len(scene[m].index) :
                     /\ scene'[m].index[k] \in 0..(Len(scene'[m].positions) - 1)
                     /\ scene'[m].positions[scene'[m].index[k] + 1]
                          = scene[m].positions[scene[m].index[k] + 1] ]_vars

\* C5, reached: removeLooseVertices has taken vertices out of an indexed
\* mesh that has faces.
C5_LooseVerticesRemoved ==
  /\ lastOp = "removeLooseVertices"
  /\ ret > 0
  /\ \E m \in 1..Len(scene) :
       /\ scene[m].hasIndex
       /\ Len(scene[m].index) > 0
       /\ Len(scene[m].positions) < Len(meshes[m].originalGeometry.positions)

\* the edges of face f of an index buffer, and the faces on an edge
FaceEdges(indices, f) ==
  { EdgeKeyString(indices[3 * f + 1], indices[3 * f + 2]),
    EdgeKeyString(indices[3 * f + 2], indices[3 * f + 3]),
    EdgeKeyString(indices[3 * f + 3], indices[3 * f + 1]) }
IncidentFaces(indices, e) ==
  { f \in 0..(FaceCount(indices) - 1) : e \in FaceEdges(indices, f) }
\* the faces that are the third or a later face, in face order, of an edge
ThirdOrLaterFaces(indices) ==
  { f \in 0..(FaceCount(indices) - 1) :
      \E e \in FaceEdges(indices, f) :
        Cardinality({ g \in IncidentFaces(indices, e) : g < f }) >= 2 }

\* C6, as stated: fixNonManifoldEdges removes from an indexed mesh exactly
\* the faces that are the third or a later face of some edge, in face order,
\* and no other face; afterwards no edge has more than 2 faces, and the
\* value returned is the number of faces removed.
C6_FixNonManifoldEdgesKeepsFirstTwo ==
  [][ lastOp' = "fixNonManifoldEdges"
      => /\ \A m \in 1..Len(scene) :
              scene[m].hasIndex =>
                /\ scene'[m].index =
                     KeepFaces(scene[m].index, 0, FaceCount(scene[m].index),
                               ThirdOrLaterFaces(scene[m].index))
                /\ \A f \in 0..(FaceCount(scene'[m].index) - 1) :
                     \A e \in FaceEdges(scene'[m].index, f) :
                       Cardinality(IncidentFaces(scene'[m].index, e)) <= 2
         /\ ret' = SumSeq([m \in 1..Len(scene) |->
                      IF scene[m].hasIndex
                      THEN Cardinality(ThirdOrLaterFaces(scene[m].index))
                      ELSE 0]) ]_vars

\* the steps of repairGeometry in their fixed order
FixedOrder ==
  << "mergeVertices", "removeLooseVertices", "fixNonManifoldEdges",
     "removeDegenerateFaces", "recalculateNormals" >>
StepsOf(o) ==
  FixedOrder \o (IF o.ensureManifold THEN << "validateAndReRepair" >> ELSE << >>)
IsStepLine(line) == line[1] \in { "Running", "Skipping" }
StepLines == SelectSeq(log, IsStepLine)
\* how often the public method name was called since repairGeometry began
Calls(name) == Cardinality({ k \in 1..Len(log) : log[k] = << "call", name >> })
\* the step in which line k of the log was written
StepOfLine(k) ==
  LET before == { j \in 1..k : IsStepLine(log[j]) }
  IN  IF before = {} THEN << "none", "none" >>
      ELSE log[CHOOSE j \in before : \A i \in before : i <= j]

\* C7, as stated: when repairGeometry has returned, the operations were
\* taken in the fixed order, every operation in skipOperations was not run
\* and has no entry in the repairs map, and every other operation was run
\* exactly once and has an entry.
C7_EachOperationExactlyOnce ==
  pc = "done" =>
    /\ \A k \in 1..Len(StepLines) : StepLines[k][2] = StepsOf(opts)[k]
    /\ \A name \in Range(FixedOrder) :
         IF name \in opts.skipOperations
         THEN Calls(name) = 0 /\ name \notin DOMAIN results
         ELSE Calls(name) = 1 /\ name \in DOMAIN results

\* C7, corrected: repairGeometry takes its steps in the fixed order, one at
\* a time; a step named in skipOperations is skipped and has no entry in
\* the repairs map, every other step is taken exactly once, makes one call
\* of its operation and has exactly one entry; an operation is called only
\* in its own step or in the re-repair step (which calls removeDegenerateFaces,
\* mergeVertices and fixNonManifoldEdges again, skipped or not); the final
\* analysis is made after the last step, as the last thing.
C7_StepsInOrderSkipsHonoured ==
  pc \in { "await", "done" } =>
    LET ops == StepsOf(opts)
        reached == IF pc = "done" THEN Len(ops) ELSE opIndex + 1
        completed == IF pc = "done" THEN Len(ops) ELSE opIndex
    IN  /\ Len(StepLines) = reached
        /\ \A k \in 1..reached :
             StepLines[k] = << IF ops[k] \in opts.skipOperations
                               THEN "Skipping" ELSE "Running", ops[k] >>
        /\ DOMAIN results = { ops[k] : k \in 1..completed } \ opts.skipOperations
        /\ \A k \in 1..Len(log) :
             /\ ( log[k][1] = "Running" /\ log[k][2] \in Range(FixedOrder) )
                => /\ k < Len(log)
                   /\ log[k + 1] = << "call", log[k][2] >>
                   /\ k + 2 <= Len(log) => log[k + 2][1] # "call"
             /\ ( log[k][1] = "call" /\ log[k][2] \in Range(FixedOrder) )
                => StepOfLine(k) \in { << "Running", log[k][2] >>,
                                       << "Running", "validateAndReRepair" >> }
        /\ IF pc = "done"
           THEN /\ Len(log) >= 2
                /\ log[Len(log) - 1] = << "finished", "repairGeometry" >>
                /\ log[Len(log)] = << "call", "analyzeGeometry" >>
                /\ Cardinality({ k \in 1..Len(log) : log[k][1] = "finished" }) = 1
           ELSE << "finished", "repairGeometry" >> \notin Range(log)

\* C7, reached: repairGeometry has returned from a call that skipped
\* mergeVertices and whose re-repair step called mergeVertices all the same.
C7_SkippedOperationRunByReRepair ==
  /\ pc = "done"
  /\ opts.skipOperations = { "mergeVertices" }
  /\ "mergeVertices" \notin DOMAIN results
  /\ DOMAIN results = Range(StepsOf(opts)) \ { "mergeVertices" }
  /\ Calls("mergeVertices") > 0

\* C8: the re-repair step makes at most 3 iterations, each one calling
\* removeDegenerateFaces, mergeVertices, fixNonManifoldEdges in this order
\* after an analysis; it stops before the third iteration is over exactly
\* when an analysis finds no non-manifold edge, no non-manifold vertex and
\* no degenerate face; the count it reports is the number of iterations
\* made, 0..3; and with that count in the repairs map repairGeometry has
\* returned its final analysis, defects left or not.
C8_IterativeRepairBounded ==
  /\ ( pc = "await" /\ StepsOf(opts)[opIndex + 1] = "validateAndReRepair" )
     => pending \in 0..maxIterations
  /\ "validateAndReRepair" \in DOMAIN results =>
       LET n == results["validateAndReRepair"]
           iterations == { k \in 1..Len(log) :
                             log[k] = << "iteration", "performIterativeRepair" >> }
           stops == { k \in 1..Len(log) :
                        log[k] = << "manifold", "performIterativeRepair" >> }
       IN  /\ n \in 0..maxIterations
           /\ n = Cardinality(iterations)
           /\ \A k \in iterations :
                /\ k + 3 <= Len(log)
                /\ log[k - 1] = << "call", "analyzeGeometry" >>
                /\ log[k + 1] = << "call", "removeDegenerateFaces" >>
                /\ log[k + 2] = << "call", "mergeVertices" >>
                /\ log[k + 3] = << "call", "fixNonManifoldEdges" >>
           /\ Cardinality(stops) = (IF n < maxIterations THEN 1 ELSE 0)
           /\ \A k \in stops : /\ log[k - 1] = << "call", "analyzeGeometry" >>
                               /\ \A j \in iterations : j < k
           /\ Calls("analyzeGeometry") = Min(n + 1, maxIterations) + 1
           /\ pc = "done"
           /\ ( n < maxIterations /\ lastOp = "repairGeometry" )
              => /\ finalAnalysis.totalStats.nonManifoldEdges = 0
                 /\ finalAnalysis.totalStats.nonManifoldVertices = 0
                 /\ finalAnalysis.totalStats.degenerateFaces = 0

\* C8, reached: repairGeometry has returned after all 3 iterations of the
\* re-repair, and its final analysis still counts a defect the iterations
\* were after.
C8_CapReachedWithDefects ==
  /\ pc = "done"
  /\ "validateAndReRepair" \in DOMAIN results
  /\ results["validateAndReRepair"] = maxIterations
  /\ finalAnalysis.totalStats.nonManifoldEdges
       + finalAnalysis.totalStats.nonManifoldVertices
       + finalAnalysis.totalStats.degenerateFaces > 0

\* a scene all of whose meshes are without index buffer
NonIndexed(s) == \A m \in 1..Len(s) : ~s[m].hasIndex

\* C9: removeLooseVertices, fixNonManifoldEdges and removeDegenerateFaces
\* leave a mesh without index buffer as it is (positions, normals, uvs, and
\* still no index buffer) and return 0 when no mesh has one; repairGeometry
\* on such a scene goes on through its later steps and returns, with 0 in
\* the repairs map for each of the three it did not skip.
C9_NonIndexedLeftAlone ==
  [][ /\ lastOp' \in { "removeLooseVertices", "fixNonManifoldEdges",
                       "removeDegenerateFaces" }
         => /\ \A m \in 1..Len(scene) :
                 ~scene[m].hasIndex => scene'[m] = scene[m]
            /\ NonIndexed(scene) => ret' = 0
      /\ ( pc' = "done" /\ lastOp' = "repairGeometry" /\ NonIndexed(input) )
         => /\ NonIndexed(scene')
            /\ DOMAIN results' = Range(StepsOf(opts')) \ opts'.skipOperations
            /\ \A name \in { "removeLooseVertices", "fixNonManifoldEdges",
                             "removeDegenerateFaces" } \cap DOMAIN results' :
                 results'[name] = 0 ]_vars

\* C9, reached: removeDegenerateFaces was called on its own on a scene of
\* meshes without index buffer, with vertices to make faces of, and
\* returned 0.
C9_PassOnNonIndexedMesh ==
  /\ lastOp = "removeDegenerateFaces"
  /\ ret = 0
  /\ Len(scene) > 0
  /\ NonIndexed(scene)
  /\ \E m \in 1..Len(scene) : Len(scene[m].positions) >= 3

\* C10, as stated, for the positions and the index buffer: after
\* resetToOriginal every mesh has the positions and the index buffer it had
\* before the first operation on the repairer.
C10_ResetRestoresInput ==
  lastOp = "resetToOriginal" =>
    \A m \in 1..Len(scene) :
      /\ scene[m].positions = input[m].positions
      /\ scene[m].index = input[m].index

\* the nodes of a hierarchy from its root down
BelowRoot(g) == Range(Traverse(g, g.root))

\* C11, as stated: removeMeshesWithIssues takes out of the hierarchy below
\* the root every mesh, at any depth, with a defect count above its
\* threshold, leaves every other mesh attached, removes every container
\* below the root that is left without children, never removes the root
\* from its own parent, and returns the number of meshes it took out.
C11_MeshesWithIssuesRemoved ==
  [][ lastOp' = "removeMeshesWithIssues"
      => /\ \A k \in 1..Len(scene) :
              (MeshNodes(graph)[k] \in BelowRoot(graph'))
                <=> ~hasTooManyIssues(analyzeSingleMesh(scene[k]),
                                      removeOptions')
         /\ \A n \in BelowRoot(graph') \ { graph.root } :
              (~graph.isMesh[n] /\ Children(graph, n) # {})
                => Children(graph', n) # {}
         /\ graph'.parent[graph.root] = graph.parent[graph.root]
         /\ ret' = Cardinality(BelowRoot(graph) \ BelowRoot(graph')) ]_vars

(***************************************************************************)
(* The analyzer's maps, said without the pass over the faces.              *)
(***************************************************************************)
Corners(geometry, f) ==
  << geometry.index[3 * f + 1], geometry.index[3 * f + 2],
     geometry.index[3 * f + 3] >>
FacesOf(geometry) == 0..(FaceCount(geometry.index) - 1)
HasRepeatedIndex(geometry, f) ==
  Cardinality(Range(Corners(geometry, f))) < 3
\* the squared length of the cross product is below tolerance squared
HasSmallCross(geometry, f) ==
  isZeroAreaFace(geometry.positions, Corners(geometry, f)[1],
                 Corners(geometry, f)[2], Corners(geometry, f)[3])
SoundFaces(geometry) ==
  { f \in FacesOf(geometry) :
      ~HasRepeatedIndex(geometry, f) /\ ~HasSmallCross(geometry, f) }
\* the sound faces with u and v as two of their corners, u # v
SoundFacesOn(geometry, u, v) ==
  { f \in SoundFaces(geometry) : { u, v } \subseteq Range(Corners(geometry, f)) }
VerticesOf(geometry) == 0..(Len(geometry.positions) - 1)

AnalyzerHasRun == lastOp \in { "analyzeGeometry", "validateManifoldGeometry" }

\* C12: after an analysis, the degenerateFaces of an indexed mesh is the
\* number of its faces that have a repeated index or a cross product of
\* squared length below tolerance squared, each counted once, and the edge
\* incidence counts, the vertex face counts and the vertex neighbour sets
\* are those of the other faces alone.
C12_DegenerateFaceCountedOnce ==
  AnalyzerHasRun =>
    \A m \in 1..Len(scene) :
      scene[m].hasIndex =>
        /\ analysisResults[m].degenerateFaces
             = Cardinality({ f \in FacesOf(scene[m]) :
                               \/ HasRepeatedIndex(scene[m], f)
                               \/ HasSmallCross(scene[m], f) })
        /\ \A u \in VerticesOf(scene[m]) :
             /\ FaceMaps(scene[m]).vertexFaceCount[u + 1]
                  = Cardinality({ f \in SoundFaces(scene[m]) :
                                    u \in Range(Corners(scene[m], f)) })
             /\ FaceMaps(scene[m]).vertexEdgeSet[u + 1]
                  = { v \in VerticesOf(scene[m]) \ { u } :
                        SoundFacesOn(scene[m], u, v) # {} }
             /\ \A v \in VerticesOf(scene[m]) \ { u } :
                  MapGet(FaceMaps(scene[m]).edgeCount, getEdgeKey(u, v))
                    = Cardinality(SoundFacesOn(scene[m], u, v))
        /\ \A key \in DOMAIN FaceMaps(scene[m]).edgeCount :
             \E u \in VerticesOf(scene[m]), v \in VerticesOf(scene[m]) :
               u # v /\ key = getEdgeKey(u, v)

\* an analysed mesh with a face of three different corners on one line, a
\* face with a repeated corner, and a sound face on an edge of both
C12_DegenerateFaceBesideSoundFace ==
  /\ AnalyzerHasRun
  /\ \E m \in 1..Len(scene) :
       /\ scene[m].hasIndex
       /\ analysisResults[m].degenerateFaces = 2
       /\ \E f \in FacesOf(scene[m]), g \in FacesOf(scene[m]),
             h \in SoundFaces(scene[m]) :
            /\ HasRepeatedIndex(scene[m], f)
            /\ ~HasRepeatedIndex(scene[m], g) /\ HasSmallCross(scene[m], g)
            /\ Cardinality(Range(Corners(scene[m], g))
                             \cap Range(Corners(scene[m], h))) = 2
            /\ Cardinality(Range(Corners(scene[m], f))
                             \cap Range(Corners(scene[m], h))) = 2

\* pair i of edgeKeys as the unordered pair it is
PairSet(i) == { edgeKeys.pairs[i][1], edgeKeys.pairs[i][2] }

\* C13, as stated: two vertex pairs get the same edge key if and only if
\* they are the same unordered pair, and decodeEdgeKey of the key of a pair
\* is (the smaller index, the larger index).
C13_EdgeKeyIdentifiesPair ==
  /\ edgeKeys.keys # << >>
       => (edgeKeys.keys[1] = edgeKeys.keys[2] <=> PairSet(1) = PairSet(2))
  /\ edgeKeys.decoded # << >>
       => \A i \in 1..2 :
            edgeKeys.decoded[i]
              = << Positive(FromInt(Min(edgeKeys.pairs[i][1],
                                        edgeKeys.pairs[i][2]))),
                   Positive(FromInt(Max(edgeKeys.pairs[i][1],
                                        edgeKeys.pairs[i][2]))) >>

\* For vertex indices up to 7 the keys and the decoded pairs are those of
\* getEdgeKey and decodeEdgeKey in whole numbers, which the analyzer of the
\* scenes is written with, and for them what C13 states holds.
EdgeKeysOfSmallIndices ==
  \A i \in 1..2 :
    PairSet(i) \subseteq 0..7 =>
      /\ edgeKeys.keys # << >>
           => /\ edgeKeys.keys[i]
                   = FromInt(getEdgeKey(edgeKeys.pairs[i][1],
                                        edgeKeys.pairs[i][2]))
              /\ PairSet(3 - i) \subseteq 0..7
                   => (edgeKeys.keys[1] = edgeKeys.keys[2]
                         <=> PairSet(1) = PairSet(2))
      /\ edgeKeys.decoded # << >>
           => edgeKeys.decoded[i]
                = << Positive(FromInt(decodeEdgeKey(getEdgeKey(
                       edgeKeys.pairs[i][1], edgeKeys.pairs[i][2]))[1])),
                     Positive(FromInt(Max(edgeKeys.pairs[i][1],
                                          edgeKeys.pairs[i][2]))) >>

\* the edges of a geometry with a sound face on them, as vertex pairs
EdgesOf(geometry) ==
  UNION { { { Corners(geometry, f)[1], Corners(geometry, f)[2] },
            { Corners(geometry, f)[2], Corners(geometry, f)[3] },
            { Corners(geometry, f)[3], Corners(geometry, f)[1] } } :
          f \in SoundFaces(geometry) }
FacesOnEdge(geometry, e) ==
  { f \in SoundFaces(geometry) : e \subseteq Range(Corners(geometry, f)) }
FacesAt(geometry, u) ==
  { f \in SoundFaces(geometry) : u \in Range(Corners(geometry, f)) }
NeighboursOf(geometry, u) ==
  { v \in VerticesOf(geometry) \ { u } : FacesOnEdge(geometry, { u, v }) # {} }

\* C14: an analysed indexed mesh has as boundaryEdges the number of edges
\* with exactly 1 sound face on them, as nonManifoldEdges the number with
\* more than 2, as nonManifoldVertices the number of vertices with more
\* neighbours than faces + 1; a flat quad split in 2 triangles along a
\* diagonal, alone in the scene, has 0, 0 and 4 boundary edges, and
\* validateManifoldGeometry returns true for it.
C14_EdgeAndVertexCounts ==
  AnalyzerHasRun =>
    /\ \A m \in 1..Len(scene) :
         scene[m].hasIndex =>
           /\ analysisResults[m].boundaryEdges
                = Cardinality({ e \in EdgesOf(scene[m]) :
                                  Cardinality(FacesOnEdge(scene[m], e)) = 1 })
           /\ analysisResults[m].nonManifoldEdges
                = Cardinality({ e \in EdgesOf(scene[m]) :
                                  Cardinality(FacesOnEdge(scene[m], e)) > 2 })
           /\ analysisResults[m].nonManifoldVertices
                = Cardinality({ u \in VerticesOf(scene[m]) :
                                  Cardinality(NeighboursOf(scene[m], u))
                                    > Cardinality(FacesAt(scene[m], u)) + 1 })
    /\ (Len(scene) = 1 /\ scene[1] \in FlatQuads) =>
         /\ analysisResults[1].nonManifoldEdges = 0
         /\ analysisResults[1].nonManifoldVertices = 0
         /\ analysisResults[1].boundaryEdges = 4
         /\ lastOp = "validateManifoldGeometry" => ret = TRUE

\* validateManifoldGeometry has returned for the quad split along 1-3
C14_QuadValidated ==
  /\ lastOp = "validateManifoldGeometry"
  /\ scene = << [Quad EXCEPT !.index = << 0, 1, 3, 1, 2, 3 >>] >>
  /\ analysisResults[1].boundaryEdges = 4
  /\ ret = TRUE

\* the sum of a count over the analysed meshes
TotalOf(count) ==
  SumSeq([m \in 1..Len(analysisResults) |-> analysisResults[m][count]])

\* C15: validateManifoldGeometry returns true if and only if the scene has,
\* over all its meshes, no non-manifold edge, no non-manifold vertex, no
\* degenerate face and no loose vertex, whatever its boundary edges and
\* duplicate vertices.
C15_ValidIffNoManifoldIssue ==
  lastOp = "validateManifoldGeometry" =>
    (ret = TRUE
       <=> /\ TotalOf("nonManifoldEdges") = 0
           /\ TotalOf("nonManifoldVertices") = 0
           /\ TotalOf("degenerateFaces") = 0
           /\ TotalOf("looseVertices") = 0)

\* a scene with boundary edges and duplicate vertices found valid
C15_ValidWithBoundaryAndDuplicates ==
  /\ lastOp = "validateManifoldGeometry"
  /\ ret = TRUE
  /\ TotalOf("boundaryEdges") > 0
  /\ TotalOf("duplicateVertices") > 0

\* C16: in the report of analyzeGeometry every count of totalStats is the
\* sum of that count over the meshes of the scene, each analysed on its own,
\* and totalIssues is duplicateVertices + looseVertices + nonManifoldEdges
\* + nonManifoldVertices + degenerateFaces, the boundary edges left out.
C16_AggregateIsSumOfMeshes ==
  lastOp = "analyzeGeometry" =>
    /\ ret.meshAnalysis = [m \in 1..Len(scene) |-> analyzeSingleMesh(scene[m])]
    /\ analysisResults = ret.meshAnalysis
    /\ ret.totalStats.meshes = Len(scene)
    /\ \A count \in { "vertices", "faces3", "duplicateVertices",
                       "looseVertices", "nonManifoldEdges",
                       "nonManifoldVertices", "degenerateFaces",
                       "boundaryEdges" } :
         ret.totalStats[count] = TotalOf(count)
    /\ ret.totalStats.totalIssues
         = TotalOf("duplicateVertices") + TotalOf("looseVertices")
             + TotalOf("nonManifoldEdges") + TotalOf("nonManifoldVertices")
             + TotalOf("degenerateFaces")

\* a report on three meshes, each with boundary edges, two with defects
C16_ReportOnThreeMeshes ==
  /\ lastOp = "analyzeGeometry"
  /\ Len(scene) = 3
  /\ \A m \in 1..3 : analysisResults[m].boundaryEdges > 0
  /\ Cardinality({ m \in 1..3 : MeshIssues(analysisResults[m]) > 0 }) = 2
  /\ ret.totalStats.totalIssues > 0

\* the 1-based positions, in the list of operations, of the steps that
\* were run and have returned
CompletedSteps ==
  { k \in 1..Len(Operations(opts.ensureManifold)) :
      /\ Operations(opts.ensureManifold)[k] \notin opts.skipOperations
      /\ \/ pc = "done"
         \/ pc = "await" /\ k <= opIndex }

\* p < q for two fractions
FractionLess(p, q) == p[1] * q[2] < q[1] * p[2]

\* C17: at every moment of a repairGeometry call with an onProgress, the
\* calls of onProgress made so far are one for each step that was run and
\* has returned, in the order of the steps, each with the name of its step
\* and the percent (position of the step in the whole list, from 1) /
\* (length of the list) * 100; the percents are above 0, at most 100 and
\* strictly increasing, and the last one is 100 once the last step of the
\* list was run; a call is added only when the step awaited returns.
C17_ProgressAfterEachExecutedStep ==
  /\ [](opts.onProgress =>
          /\ Len(progress) = Cardinality(CompletedSteps)
          /\ \A j \in 1..Len(progress) :
               \E k \in CompletedSteps :
                 /\ Cardinality({ l \in CompletedSteps : l <= k }) = j
                 /\ progress[j].operation = Operations(opts.ensureManifold)[k]
                 /\ progress[j].percent
                      = << k * 100, Len(Operations(opts.ensureManifold)) >>
          /\ \A j \in 1..Len(progress) :
               /\ FractionLess(<< 0, 1 >>, progress[j].percent)
               /\ ~FractionLess(<< 100, 1 >>, progress[j].percent)
               /\ \A l \in 1..(j - 1) :
                    FractionLess(progress[l].percent, progress[j].percent)
          /\ (/\ pc = "done"
              /\ Operations(opts.ensureManifold)[
                   Len(Operations(opts.ensureManifold))] \notin opts.skipOperations)
               => progress[Len(progress)].percent[1]
                    = 100 * progress[Len(progress)].percent[2])
  /\ [][ progress' # progress
          => /\ pc = "await"
             /\ opts.onProgress
             /\ progress' = Append(progress,
                   ProgressCall(opIndex, Operations(opts.ensureManifold))) ]_vars

\* a call with six steps, the third skipped, has returned: five calls of
\* onProgress, the last with 100 percent
C17_FiveOfSixStepsReported ==
  /\ pc = "done"
  /\ opts.onProgress
  /\ opts.ensureManifold
  /\ opts.skipOperations = { "fixNonManifoldEdges" }
  /\ Len(progress) = 5
  /\ progress[3].operation = "removeDegenerateFaces"
  /\ progress[3].percent = << 400, 6 >>
  /\ progress[5].percent = << 600, 6 >>

\* the repair attempt of exportSceneToSvg is over
RepairAttemptOver ==
  svgExport.stage \in { "rendering", "fallback", "done", "thrown" }

\* C18: once the repair attempt of exportSceneToSvg is over, if it left
\* totalIssues > 0 then generateVisibleEdgesSVG has been called, generateSVG
\* has not and never will be, no exception leaves exportSceneToSvg and the
\* svg downloaded is the one of generateVisibleEdgesSVG; if it left
\* totalIssues = 0 then generateSVG has been called.
C18_IssuesLeadToFallback ==
  RepairAttemptOver =>
    IF finalAnalysis.totalStats.totalIssues > 0
    THEN /\ svgExport.generateSVG = 0
         /\ svgExport.generateVisibleEdgesSVG = 1
         /\ svgExport.stage # "thrown"
         /\ svgExport.thrown = "none"
         /\ svgExport.stage = "done"
              => svgExport.downloaded = << "<svg visible edges>", "scene.svg" >>
    ELSE svgExport.generateSVG = 1

\* an export finished by the fallback because the repair left issues
C18_FallbackAfterIssues ==
  /\ svgExport.stage = "done"
  /\ finalAnalysis.totalStats.totalIssues > 0
  /\ svgExport.caught
       = "Model has issues preventing SVG export using 'three-svg-renderer'"
  /\ svgExport.svg = "<svg visible edges>"

\* the lines of a text with a head, in order
LinesWith(text, head) == SelectSeq(text, LAMBDA line : line.head = head)
\* the vertices a text lists, as numbers
VertexList(text) ==
  [i \in 1..Len(LinesWith(text, "v")) |->
     [k \in 1..3 |-> parseFloat(LinesWith(text, "v")[i].args[k])]]
\* the vertices the f lines of a text refer to, counted from 1
FaceList(text) ==
  [i \in 1..Len(LinesWith(text, "f")) |->
     [k \in 1..Len(LinesWith(text, "f")[i].args) |->
        parseInt(LinesWith(text, "f")[i].args[k][1])]]

\* C19, as stated: when an OBJ text has been parsed and the MeshData written
\* out again, the text written lists the same vertices in the same order and
\* has the same f lines, each referring to the same vertices counted from 1,
\* and the MeshData in between holds for every f line of three arguments one
\* face with those vertices counted from 0.
C19_ObjRoundTrip ==
  obj.stage = "written" =>
    /\ obj.meshData[1].vertices = VertexList(obj.text)
    /\ VertexList(obj.written) = VertexList(obj.text)
    /\ FaceList(obj.written) = FaceList(obj.text)
    /\ (\A i \in 1..Len(FaceList(obj.text)) : Len(FaceList(obj.text)[i]) = 3)
         => obj.meshData[1].faces
              = [i \in 1..Len(FaceList(obj.text)) |->
                   [vertices |-> [k \in 1..3 |-> Plus(FaceList(obj.text)[i][k], -1)],
                    uv |-> obj.meshData[1].faces[i].uv]]

\* C20: a simulateSAR call made with an empty aperture path is rejected
\* with "Aperture path is empty" at once: no radar return is captured, the
\* returns the processor holds stay as they are, no progress is reported and
\* the call has no image, then or later.
C20_EmptyPathRejected ==
  /\ [][ (SimulateSAR /\ sar.aperturePath = << >>)
         => /\ sar'.stage = "rejected"
            /\ sar'.error = "Aperture path is empty"
            /\ sar'.captures = sar.captures
            /\ sar'.radarReturns = sar.radarReturns
            /\ sar'.progress = << >>
            /\ sar'.image = "none" ]_vars
  /\ [](sar.error = "Aperture path is empty"
          => sar.stage = "rejected" /\ sar.image = "none")

\* a call rejected for its empty path, the processor holding the returns of
\* an earlier call
C20_RejectedWithReturnsKept ==
  /\ sar.stage = "rejected"
  /\ sar.error = "Aperture path is empty"
  /\ sar.aperturePath = << >>
  /\ Len(sar.radarReturns) = MaxSamples
  /\ sar.captures = MaxSamples

\* the first vertex, in ascending order, with the quantization key of v
FirstSeen(geometry, tolerance, v) ==
  CHOOSE u \in 0..v :
    /\ MergeKey(geometry.positions[u + 1], tolerance)
         = MergeKey(geometry.positions[v + 1], tolerance)
    /\ \A w \in 0..(u - 1) :
         MergeKey(geometry.positions[w + 1], tolerance)
           # MergeKey(geometry.positions[v + 1], tolerance)

\* the vertices that are the first of their key
Survivors(geometry, tolerance) ==
  { v \in 0..(Len(geometry.positions) - 1) :
      FirstSeen(geometry, tolerance, v) = v }

\* the place of survivor v among the survivors in ascending order
Rank(survivors, v) == Cardinality({ u \in survivors : u < v })

\* the geometry after is the geometry before with the first-seen vertex of
\* each key kept, in first-seen order, the index buffer remapped to them
KeepsFirstSeen(before, after, tolerance, survivors) ==
  /\ Len(after.positions) = Cardinality(survivors)
  /\ \A v \in survivors :
       /\ after.positions[Rank(survivors, v) + 1] = before.positions[v + 1]
       /\ before.hasNormal =>
            /\ after.hasNormal
            /\ after.normals[Rank(survivors, v) + 1] = before.normals[v + 1]
       /\ before.hasUv =>
            /\ after.hasUv
            /\ after.uvs[Rank(survivors, v) + 1] = before.uvs[v + 1]
  /\ Len(after.index) = Len(before.index)
  /\ \A k \in 1..Len(before.index) :
       after.index[k] =
         Rank(survivors, FirstSeen(before, tolerance, before.index[k]))

\* C21: mergeVertices keeps of every quantization key the vertex seen first
\* (lowest index), in first-seen order, with its own position, normal and
\* uv; every entry of the index buffer becomes the new index of the survivor
\* of its key; the count returned is the old vertex count less the new one.
C21_MergeKeepsFirstSeen ==
  [][ lastOp' = "mergeVertices"
      => /\ ret' = SceneVertices(scene) - SceneVertices(scene')
         /\ Len(scene') = Len(scene)
         /\ \A m \in 1..Len(scene) :
              KeepsFirstSeen(scene[m], scene'[m], lastTolerance',
                             Survivors(scene[m], lastTolerance')) ]_vars

\* C21, reached: mergeVertices at tolerance 1e-5 has taken out of an indexed
\* mesh with normals a vertex whose position no kept vertex has, and has
\* changed the index buffer.
C21_NearVertexMergedAway ==
  /\ pc = "idle"
  /\ lastOp = "mergeVertices"
  /\ lastTolerance = ExportTolerance
  /\ ret > 0
  /\ \E m \in 1..Len(scene) :
       /\ meshes[m].originalGeometry.hasIndex
       /\ meshes[m].originalGeometry.hasNormal
       /\ scene[m].index # meshes[m].originalGeometry.index
       /\ \E v \in 1..Len(meshes[m].originalGeometry.positions) :
            meshes[m].originalGeometry.positions[v]
              \notin Range(scene[m].positions)

\* the faces of a geometry in order, each the positions of its three
\* corners in order: by the index buffer, or three vertices in a row
FaceTriples(geometry) ==
  IF geometry.hasIndex
  THEN [f \in 1..(Len(geometry.index) \div 3) |->
          << geometry.positions[geometry.index[3 * f - 2] + 1],
             geometry.positions[geometry.index[3 * f - 1] + 1],
             geometry.positions[geometry.index[3 * f] + 1] >>]
  ELSE [f \in 1..(Len(geometry.positions) \div 3) |->
          << geometry.positions[3 * f - 2], geometry.positions[3 * f - 1],
             geometry.positions[3 * f] >>]

\* the faces with every corner position replaced by its quantization key
KeyTriples(geometry, tolerance) ==
  [f \in 1..Len(FaceTriples(geometry)) |->
     [j \in 1..3 |-> MergeKey(FaceTriples(geometry)[f][j], tolerance)]]

\* a is b with some entries left out
RECURSIVE SubsequenceOf(_, _)
SubsequenceOf(a, b) ==
  IF a = << >> THEN TRUE
  ELSE IF b = << >> THEN FALSE
  ELSE IF Head(a) = Head(b) THEN SubsequenceOf(Tail(a), Tail(b))
  ELSE SubsequenceOf(a, Tail(b))

\* C22, as stated: after any repair pass the faces of every mesh are faces
\* it had before, in the order they had, each with its three corners in the
\* order they had and at the same positions (removeLooseVertices,
\* fixNonManifoldEdges, removeDegenerateFaces) or at positions of the same
\* quantization key (mergeVertices).
C22_WindingAndFaceOrderKept ==
  [][ /\ lastOp' \in { "removeLooseVertices", "fixNonManifoldEdges",
                       "removeDegenerateFaces" }
         => \A m \in 1..Len(scene) :
              SubsequenceOf(FaceTriples(scene'[m]), FaceTriples(scene[m]))
      /\ lastOp' = "mergeVertices"
         => \A m \in 1..Len(scene) :
              SubsequenceOf(KeyTriples(scene'[m], lastTolerance'),
                            KeyTriples(scene[m], lastTolerance')) ]_vars

\* the vertices at the position of an earlier vertex (one coordinate unit
\* is the analyzer's tolerance, so the quantized triple is the position)
RepeatedVertices(geometry) ==
  { v \in 1..Len(geometry.positions) :
      \E u \in 1..(v - 1) : geometry.positions[u] = geometry.positions[v] }

\* C23, as stated: the duplicateVertices the analyzer reports for a mesh is
\* the number of its vertices whose quantized coordinate triple is that of
\* an earlier vertex; vertices with different triples are never counted as
\* duplicates of each other.
C23_DuplicatesAreRepeatedTriples ==
  AnalyzerHasRun =>
    \A m \in 1..Len(scene) :
      analysisResults[m].duplicateVertices
        = Cardinality(RepeatedVertices(scene[m]))

\* C24, as stated: on the same vertex list and triangle list (no two
\* vertices at one point, so that merging changes nothing), repairMeshData
\* with only its fix-non-manifold step switched on and one call of
\* GeometryRepairer.fixNonManifoldEdges keep the same faces and give the
\* same count.
C24_SameFacesKept ==
  ( /\ obj.stage = "repaired"
    /\ obj.options.fixNonManifoldEdges
    /\ ~obj.options.removeDegenerateFaces
    /\ ~obj.options.removeLooseVertices
    /\ obj.results.mergedVertices = 0
    /\ lastOp = "fixNonManifoldEdges"
    /\ meshes[1].originalGeometry = input[1] )
  => /\ Flatten([f \in 1..Len(obj.meshData[1].faces) |->
                   obj.meshData[1].faces[f].vertices]) = scene[1].index
     /\ obj.results.fixedNonManifoldEdges = ret

\* the sum of a sequence of vectors
RECURSIVE VectorSum(_)
VectorSum(s) ==
  IF s = << >> THEN Zero
  ELSE << Head(s)[1] + VectorSum(Tail(s))[1],
          Head(s)[2] + VectorSum(Tail(s))[2],
          Head(s)[3] + VectorSum(Tail(s))[3] >>

\* the unit normal of face f of a MeshData
FaceNormal(meshData, f) ==
  UnitNormal(Cross(meshData.vertices[meshData.faces[f].vertices[1] + 1],
                   meshData.vertices[meshData.faces[f].vertices[2] + 1],
                   meshData.vertices[meshData.faces[f].vertices[3] + 1]))

\* the sum of the unit normals of the faces that have vertex v for a corner
IncidentSum(meshData, v) ==
  VectorSum([f \in 1..Len(meshData.faces) |->
               IF v \in Range(meshData.faces[f].vertices)
               THEN FaceNormal(meshData, f) ELSE Zero])

\* a normal is the vector sum, normalized (left zero when its length is 0)
IsNormalized(normal, sum) ==
  IF sum = Zero THEN normal.sum = Zero
  ELSE /\ normal.unit
       /\ Cross(Zero, normal.sum, sum) = Zero
       /\ normal.sum[1] * sum[1] + normal.sum[2] * sum[2]
            + normal.sum[3] * sum[3] > 0

\* C25, as stated: after repairMeshData every vertex has a normal, which is
\* the normalized sum of the unit normals of the faces the vertex is a
\* corner of, and the zero vector when there is no such face or the sum has
\* length 0.
C25_NormalsOfIncidentFaces ==
  obj.stage = "repaired" =>
    /\ obj.meshData[1].normals.some
    /\ Len(obj.meshData[1].normals.arr) = Len(obj.meshData[1].vertices)
    /\ \A v \in 0..(Len(obj.meshData[1].vertices) - 1) :
         IsNormalized(obj.meshData[1].normals.arr[v + 1],
                      IncidentSum(obj.meshData[1], v))

\* a session run on from where x = [world, call] is, alone, to its return
Advance(call, r) == [world |-> r.world, call |-> Suspended(Resumed(call), r)]

RECURSIVE FinishSession(_, _)
FinishSession(x, s) ==
  IF x.call.pc = "done" THEN x
  ELSE FinishSession(
         Advance(x.call,
                 SessionRunToAwait(x.world, s, x.call.opts,
                                   x.call.opIndex + 1)),
         s)

\* repairGeometry(object s, o) from its call to its return, nothing else
\* running meanwhile
Started(call, r) == [world |-> r.world, call |-> Suspended(call, r)]

RunSession(world, s, o) ==
  FinishSession(Started([NoCall EXCEPT !.opts = o],
                        SessionRunToAwait(world, s, o, 0)), s)

\* the two sessions one after the other on a new repairer, with the options
\* they were called with
FirstAlone == RunSession(NewWorld(sessions.input), 1, sessions.call[1].opts)
SecondAfterFirst(first) == RunSession(first.world, 2, sessions.call[2].opts)

BothReturned ==
  sessions.call[1].pc = "done" /\ sessions.call[2].pc = "done"

SameAsOneAfterTheOther(first, second) ==
  /\ sessions.call[1] = first.call
  /\ sessions.call[2] = second.call
  /\ sessions.world.objects = second.world.objects

\* a step of session s: its call moves on (StartSession(s) or ResumeSession(s))
StepOf(s) ==
  /\ sessions'.call[s] # sessions.call[s]
  /\ sessions'.call[3 - s] = sessions.call[3 - s]

\* C26: two repairGeometry calls on one repairer for two objects, their
\* steps interleaved in any way at the awaits, end with the repairs, the
\* progress reports, the finalAnalysis and the geometry that the two calls
\* have when made one after the other; a step of one session leaves the
\* other object as it is and leaves in this.meshes the meshes of its own
\* object only.
C26_SessionsDoNotInterfere ==
  /\ [](BothReturned
          => SameAsOneAfterTheOther(FirstAlone, SecondAfterFirst(FirstAlone)))
  /\ [][ \A s \in { 1, 2 } :
           StepOf(s)
             => /\ sessions'.world.objects[3 - s]
                     = sessions.world.objects[3 - s]
                /\ \A e \in 1..Len(sessions'.world.meshes) :
                     sessions'.world.meshes[e].object = s ]_vars

\* C26, reached: both calls have returned after steps of one ran while the
\* other was suspended, with different options, each having repaired its
\* object
C26_InterleavedSessionsReturned ==
  /\ BothReturned
  /\ sessions.interleaved
  /\ sessions.call[1].opts # sessions.call[2].opts
  /\ \A s \in { 1, 2 } :
       /\ sessions.world.objects[s] # sessions.input[s]
       /\ sessions.call[s].results["fixNonManifoldEdges"]
            + sessions.call[s].results["removeDegenerateFaces"] > 0

\* C27, as stated: mergeVertices leaves the face count the analyzer reports
\* for every mesh as it was (faces3 is three times that count), and a mesh
\* with an index buffer, empty or not, has an index buffer afterwards.
C27_MergeKeepsFaceCount ==
  [][ lastOp' = "mergeVertices"
      => \A m \in 1..Len(scene) :
           /\ analyzeSingleMesh(scene'[m]).faces3
                = analyzeSingleMesh(scene[m]).faces3
           /\ scene[m].hasIndex => scene'[m].hasIndex ]_vars

\* C28, as stated: right after removeLooseVertices the analyzer reports no
\* loose vertex for any mesh that had an index buffer, whatever faces the
\* index buffer holds.
C28_NoLooseVertexAfterRemoval ==
  [][ lastOp' = "removeLooseVertices"
      => \A m \in 1..Len(scene) :
           scene[m].hasIndex
             => analyzeSingleMesh(scene'[m]).looseVertices = 0 ]_vars

\* C29, as stated: right after mergeVertices, at the default tolerance or
\* at 1e-5, the analyzer reports no duplicate vertex for any mesh.
C29_NoDuplicateAfterMerge ==
  [][ lastOp' = "mergeVertices"
      => \A m \in 1..Len(scene) :
           analyzeSingleMesh(scene'[m]).duplicateVertices = 0 ]_vars

\* C30, as stated: a simulateSAR call made with a non-empty aperture path,
\* the first on its SARSimulation or a later one, hands processSARImage one
\* radar return for each position of the path, return i captured at position
\* i, and fails only where no canvas context is to be had.
C30_OneReturnPerPathPosition ==
  /\ [][ (SimulateSAR /\ sar.aperturePath # << >>)
         => sar'.radarReturns = sar'.aperturePath ]_vars
  /\ [](sar.stage = "rejected"
          => sar.error \in { "Aperture path is empty",
                             "Failed to get canvas context" })

====
